---- MODULE Spec2Model ----
(***************************************************************************)
(* TeeTimeFinder: the run of cmd/root.go (runScraper): course selection,   *)
(* input validation, catalog building, eager pre-scrape and filtering, and *)
(* the interactive selection loop; plus the pure filtering functions.      *)
(*                                                                         *)
(* Strings are modelled as sequences of words (a label "9 Holes" is        *)
(* <<"9", "Holes">>); a wall-clock time label is a record of its hour,     *)
(* minute and meridiem fields, the three fields time.Parse reads.          *)
(***************************************************************************)
EXTENDS Integers, Sequences, FiniteSets, TLC

VARIABLES
    pc,                  \* position of runScraper
    exitReason,          \* why runScraper returned ("" while it runs)
    config,              \* loadCourses(): course name -> CourseConfig
    courseList,          \* --courses flag values
    verboseMode,         \* --verbose
    choice,              \* course names typed in the start form
    specifiedDate,       \* --date / form date
    specifiedTime,       \* --time / form time
    specifiedSpots,      \* --spots / form spots
    courses,             \* runScraper's working course map (its key set)
    filterStartMinutes,
    filterEndMinutes,
    spotsFilterUsed,
    timeFilterUsed,
    standardGames,
    promoGames,
    gameToTimeslotURLs,  \* the catalog: category -> course -> access URL
    preScrapedTimes,     \* category -> course -> layout -> slots
    coursesLeft,         \* courses scrapeCourseData has still to visit
    pairsLeft,           \* (game, course) pairs preScrapeAllTimes has still to visit
    selectedGame,        \* loop-local: the category picked
    selectedCourse,      \* loop-local: the course picked
    timeslotURL,         \* loop-local: its access URL
    shown,               \* what the times display of this loop pass printed
    bookingURL,          \* the URL printed by the last booking answer
    lastAnswer,          \* the user's last answer at a prompt
    looped,              \* the loop body has completed at least once
    scrapeDatesCalls,    \* courses ScrapeDates was called for
    preFetched,          \* (game, course) pairs ScrapeTimes was called for up front
    lastShowFetch,       \* the pair of the last ScrapeTimes call made on selection
    failedUnits,         \* units of work whose fetch failed
    reported,            \* units whose failure was written to the terminal
    fIn,                 \* filter check: the slot map given to the filter functions
    fCentre,             \* filter check: the time centre, << >> or <<hh, mm>>
    fSpots,              \* filter check: the minimum spots
    fOut,                \* filter check: result of sortTimesByLayoutAndSpots
    fPre,                \* filter check: result of filterAndSortTimes
    fPreLayouts,         \* filter check: sortLayoutsByEarliest of that result
    fPc,                 \* filter check: position
    nIn,                 \* name check: the raw label
    nDetect,             \* name check: hasNine / hasEighteen as found for it
    nOut,                \* name check: normaliseGameName of the label
    nAgain,              \* name check: normaliseGameName of that result
    nPage,               \* name check: a course's page, raw label -> URL
    nOrder,              \* name check: the order categoriseGames visited it in
    nCat,                \* name check: result of categoriseGames
    nPc,                 \* name check: position
    formExit,            \* the key that ended the start form ("none" before)
    progressProgram,     \* the progress display: "nil", "running" or "finished"
    pbMsgs,              \* the pbMsg counts sent to the progress display, in order
    startForm,           \* form check: the startFormModel
    lastKey,             \* form check: the last key given to its Update
    configFile,          \* config check: the lines of the config file
    fileBefore,          \* config check: the file as the command found it
    toWrite,             \* config check: the courses given to overwriteCoursesToFile
    loaded,              \* config check: result of loadExistingCourses
    blacklist,           \* config check: the blacklistModel (courses, list cursor)
    editorKey,           \* config check: the key that closed the blacklist editor
    cPc                  \* config check: position

cfgVars == << config, courseList, verboseMode >>
formVars == << choice, specifiedDate, specifiedTime, specifiedSpots >>
windowVars == << filterStartMinutes, filterEndMinutes, spotsFilterUsed >>
catalogVars == << standardGames, promoGames, gameToTimeslotURLs >>
pickVars == << selectedGame, selectedCourse, timeslotURL >>
uiVars == << shown, bookingURL, lastAnswer, looped >>
fetchVars == << scrapeDatesCalls, preFetched, lastShowFetch >>
errVars == << failedUnits, reported >>
filterVars == << fIn, fCentre, fSpots, fOut, fPre, fPreLayouts, fPc >>
nameVars == << nIn, nDetect, nOut, nAgain, nPage, nOrder, nCat, nPc >>
sessionVars == << formExit, progressProgram, pbMsgs >>
startFormVars == << startForm, lastKey >>
configVars == << configFile, fileBefore, toWrite, loaded, blacklist, editorKey, cPc >>
toolVars == << startFormVars, configVars >>

vars == << pc, exitReason, cfgVars, formVars, courses, windowVars,
           timeFilterUsed, catalogVars, preScrapedTimes, coursesLeft, pairsLeft,
           pickVars, uiVars, fetchVars, errVars, filterVars, nameVars,
           sessionVars, toolVars >>

----------------------------------------------------------------------------
(* Generic helpers *)

EmptyMap == << >>

Range(s) == { s[i] : i \in DOMAIN s }

\* m with key k bound to v (a Go map assignment m[k] = v)
MapPut(m, k, v) == [ x \in (DOMAIN m) \cup {k} |-> IF x = k THEN v ELSE m[x] ]

\* m without key k (Go's delete(m, k))
MapDel(m, k) == [ x \in (DOMAIN m) \ {k} |-> m[x] ]

\* Go's len(m[k]) for a map of maps or slices: a missing key reads as empty
LenAt(m, k) == IF k \in DOMAIN m
               THEN (IF DOMAIN m[k] = {} THEN 0 ELSE Cardinality(DOMAIN m[k]))
               ELSE 0

----------------------------------------------------------------------------
(* Time labels and their parsing *)

\* half-width of the time window, in minutes (mins - 60, mins + 60)
WindowMinutes == 60

\* strings.ToUpper on the meridiem of a time label
UpperMer(mer) == CASE mer = "am" -> "AM"
                   [] mer = "pm" -> "PM"
                   [] OTHER -> mer

\* parseTimeToMinutes: a 12-hour label "3:04 PM" / "03:04 PM" (upper-cased,
\* with or without the space before AM/PM) to minutes of the day.
\* time.Parse accepts hour 0..12 and minute 0..59 and needs AM or PM;
\* PM adds 12 to an hour below 12, AM turns hour 12 into 0.
parseTimeToMinutes(t) ==
    LET mer == UpperMer(t.mer)
        ok  == /\ mer \in {"AM", "PM"}
               /\ t.hh >= 0 /\ t.hh <= 12
               /\ t.mm >= 0 /\ t.mm <= 59
        hour == IF mer = "PM" /\ t.hh < 12 THEN t.hh + 12
                ELSE IF mer = "AM" /\ t.hh = 12 THEN 0
                ELSE t.hh
    IN  IF ok THEN [err |-> FALSE, mins |-> hour * 60 + t.mm]
              ELSE [err |-> TRUE, mins |-> 0]

\* parseTimeToMinutes24: "15:04"; t is <<hh, mm>>
parseTimeToMinutes24(t) ==
    IF Len(t) = 2 /\ t[1] >= 0 /\ t[1] <= 23 /\ t[2] >= 0 /\ t[2] <= 59
    THEN [err |-> FALSE, mins |-> t[1] * 60 + t[2]]
    ELSE [err |-> TRUE, mins |-> 0]

\* the wall clock of the run, minutes of the day
NowMinutes == 540

\* handleTimeInput with a window that leaves its upper end out
handleTimeInputHalfOpen(time, date) ==
    IF time = << >>
    THEN [start |-> 0, end |-> 0, err |-> FALSE]
    ELSE LET p == parseTimeToMinutes24(time)
         IN  IF p.err
             THEN [start |-> 0, end |-> 0, err |-> TRUE]
             ELSE IF date = "today" /\ p.mins < NowMinutes
             THEN [start |-> 0, end |-> 0, err |-> TRUE]
             ELSE [start |-> p.mins - WindowMinutes,
                   end |-> p.mins + WindowMinutes - 1, err |-> FALSE]

\* handleTimeInput with the globals passed in: (start, end, err)
handleTimeInput(time, date) ==
    IF time = << >>
    THEN [start |-> 0, end |-> 0, err |-> FALSE]
    ELSE LET p == parseTimeToMinutes24(time)
         IN  IF p.err
             THEN [start |-> 0, end |-> 0, err |-> TRUE]
             ELSE IF date = "today" /\ p.mins < NowMinutes
             THEN [start |-> 0, end |-> 0, err |-> TRUE]
             ELSE [start |-> p.mins - WindowMinutes,
                   end |-> p.mins + WindowMinutes, err |-> FALSE]

\* handleSpotsInput: (filterUsed, err)
handleSpotsInput(spots) ==
    IF spots = 0 THEN [used |-> FALSE, err |-> FALSE]
    ELSE IF spots < 1 \/ spots > 4 THEN [used |-> FALSE, err |-> TRUE]
    ELSE [used |-> TRUE, err |-> FALSE]

\* handleDateInput: the date is one of "" (missing), "malformed", "past",
\* "today", "future"
handleDateInput(date) ==
    IF date = "" THEN [err |-> TRUE]
    ELSE IF date = "malformed" THEN [err |-> TRUE]
    ELSE IF date = "past" THEN [err |-> TRUE]
    ELSE [err |-> FALSE]

----------------------------------------------------------------------------
(* Filtering and sorting of fetched slots *)

Minutes(ts) == parseTimeToMinutes(ts.Time).mins

\* sort.Slice on a slice of at most 12 elements is an insertion sort: an
\* element moves left while it is strictly less than its left neighbour.
RECURSIVE InsertSlot(_, _)
InsertSlot(sorted, ts) ==
    IF sorted = << >> THEN << ts >>
    ELSE IF Minutes(ts) < Minutes(sorted[Len(sorted)])
         THEN Append(InsertSlot(SubSeq(sorted, 1, Len(sorted) - 1), ts),
                     sorted[Len(sorted)])
         ELSE Append(sorted, ts)

RECURSIVE SortSlots(_)
SortSlots(s) ==
    IF s = << >> THEN << >>
    ELSE InsertSlot(SortSlots(SubSeq(s, 1, Len(s) - 1)), s[Len(s)])

\* the minimum over a non-empty slice of the parsed minutes
EarliestOf(slots) ==
    CHOOSE m \in { Minutes(slots[i]) : i \in DOMAIN slots } :
        \A i \in DOMAIN slots : m <= Minutes(slots[i])

\* filterAndSortTimes asking for more spots than the minimum
filterAndSortTimesMoreSpots(availableTimes, start, end, spots) ==
    LET keep(ts) ==
            LET p == parseTimeToMinutes(ts.Time)
            IN  /\ ~p.err
                /\ ~((start # 0 \/ end # 0) /\ (p.mins < start \/ p.mins > end))
                /\ ~(spots > 0 /\ ts.AvailableSpots <= spots)
        kept(layout) == SelectSeq(availableTimes[layout], keep)
        layouts == { l \in DOMAIN availableTimes : kept(l) # << >> }
    IN  [ l \in layouts |-> SortSlots(kept(l)) ]

\* filterAndSortTimes without the closing sort
filterAndSortTimesUnsorted(availableTimes, start, end, spots) ==
    LET keep(ts) ==
            LET p == parseTimeToMinutes(ts.Time)
            IN  /\ ~p.err
                /\ ~((start # 0 \/ end # 0) /\ (p.mins < start \/ p.mins > end))
                /\ ~(spots > 0 /\ ts.AvailableSpots < spots)
        kept(layout) == SelectSeq(availableTimes[layout], keep)
        layouts == { l \in DOMAIN availableTimes : kept(l) # << >> }
    IN  [ l \in layouts |-> kept(l) ]

\* filterAndSortTimes: per layout, the slots that parse, lie inside the window
\* when one is set and have enough spots, sorted; a layout with no slot kept
\* gets no key.
filterAndSortTimes(availableTimes, start, end, spots) ==
    LET keep(ts) ==
            LET p == parseTimeToMinutes(ts.Time)
            IN  /\ ~p.err
                /\ ~((start # 0 \/ end # 0) /\ (p.mins < start \/ p.mins > end))
                /\ ~(spots > 0 /\ ts.AvailableSpots < spots)
        kept(layout) == SelectSeq(availableTimes[layout], keep)
        layouts == { l \in DOMAIN availableTimes : kept(l) # << >> }
    IN  [ l \in layouts |-> SortSlots(kept(l)) ]

\* The permutations of a finite set, as sequences
PermsOf(S) ==
    { s \in [1..Cardinality(S) -> S] :
        \A i, j \in 1..Cardinality(S) : i # j => s[i] # s[j] }

\* sort.Slice of the keys of a map (appended in map-iteration order, which Go
\* leaves unspecified) by key(layout): every order with ascending keys
OrdersBy(layouts, key) ==
    { s \in PermsOf(layouts) :
        \A i \in 1..(Len(s) - 1) : key[s[i]] <= key[s[i + 1]] }

\* sortLayoutsByEarliest without the sort: the layouts in map order
sortLayoutsByEarliestUnsorted(layoutTimes) ==
    PermsOf({ l \in DOMAIN layoutTimes : layoutTimes[l] # << >> })

\* sortLayoutsByEarliest: the layouts with at least one slot, by the minutes
\* of their first slot; the set of orders the sort can produce
sortLayoutsByEarliest(layoutTimes) ==
    LET withSlots == { l \in DOMAIN layoutTimes : layoutTimes[l] # << >> }
        earliest(l) == parseTimeToMinutes(layoutTimes[l][1].Time).mins
    IN  OrdersBy(withSlots, [ l \in withSlots |-> earliest(l) ])

\* sortTimesByLayoutAndSpots without the test of the spots
sortTimesByLayoutAndSpotsAnySpots(availableTimes, start, end, spots) ==
    LET keep(ts) ==
            LET p == parseTimeToMinutes(ts.Time)
            IN  /\ ~p.err
                /\ ~((start # 0 \/ end # 0) /\ (p.mins < start \/ p.mins > end))
        kept(layout) == SelectSeq(availableTimes[layout], keep)
        layouts == { l \in DOMAIN availableTimes : kept(l) # << >> }
        layoutTimes == [ l \in layouts |-> SortSlots(kept(l)) ]
        earliest(l) == EarliestOf(kept(l))
    IN  [ layoutTimes |-> layoutTimes,
          sortedLayouts |-> OrdersBy(layouts, [ l \in layouts |-> earliest(l) ]) ]

\* sortTimesByLayoutAndSpots: the filtered, sorted layoutTimes and the set of
\* orders sortedLayouts can take
sortTimesByLayoutAndSpots(availableTimes, start, end, spots) ==
    LET keep(ts) ==
            LET p == parseTimeToMinutes(ts.Time)
            IN  /\ ~p.err
                /\ ~((start # 0 \/ end # 0) /\ (p.mins < start \/ p.mins > end))
                /\ ~(spots > 0 /\ ts.AvailableSpots < spots)
        kept(layout) == SelectSeq(availableTimes[layout], keep)
        layouts == { l \in DOMAIN availableTimes : kept(l) # << >> }
        layoutTimes == [ l \in layouts |-> SortSlots(kept(l)) ]
        earliest(l) == EarliestOf(kept(l))
    IN  [ layoutTimes |-> layoutTimes,
          sortedLayouts |-> OrdersBy(layouts, [ l \in layouts |-> earliest(l) ]) ]


----------------------------------------------------------------------------
(* Game names and their normalisation *)

\* A label is the sequence strings.Split(label, " ") gives: its words, with an
\* empty word "" for every space beyond the one that separates two words
\* (<< "9", "", "hole" >> is "9  hole", << "", "9" >> is " 9").

\* strings.ToLower on a word
LowerWord(w) ==
    CASE w \in { "Holes", "HOLES" } -> "holes"
      [] w \in { "Hole", "HOLE" } -> "hole"
      [] w \in { "Twilight", "TWILIGHT" } -> "twilight"
      [] w \in { "Special", "SPECIAL" } -> "special"
      [] w \in { "Walking", "WALKING" } -> "walking"
      [] w \in { "(Walking)", "(WALKING)" } -> "(walking)"
      [] w \in { "(Carts)" } -> "(carts)"
      [] w \in { "Midweek", "MIDWEEK" } -> "midweek"
      [] w \in { "Maylands", "MAYLANDS" } -> "maylands"
      [] w \in { "Early" } -> "early"
      [] w \in { "Bird" } -> "bird"
      [] w \in { "Carts" } -> "carts"
      [] w \in { "Can" } -> "can"
      [] w \in { "Be" } -> "be"
      [] w \in { "Added" } -> "added"
      [] OTHER -> w

\* strings.Title on a lower-case word
TitleWord(w) ==
    CASE w = "holes" -> "Holes"
      [] w = "hole" -> "Hole"
      [] w = "twilight" -> "Twilight"
      [] w = "special" -> "Special"
      [] w = "walking" -> "Walking"
      [] w = "midweek" -> "Midweek"
      [] w = "maylands" -> "Maylands"
      [] w = "early" -> "Early"
      [] w = "bird" -> "Bird"
      [] w = "carts" -> "Carts"
      [] w = "can" -> "Can"
      [] w = "be" -> "Be"
      [] w = "added" -> "Added"
      [] OTHER -> w

ToLower(name) == [ i \in DOMAIN name |-> LowerWord(name[i]) ]

Title(name) == [ i \in DOMAIN name |-> TitleWord(name[i]) ]

\* strings.TrimSpace: the spaces at both ends go
RECURSIVE TrimLeft(_)
TrimLeft(name) ==
    IF name # << >> /\ name[1] = "" THEN TrimLeft(Tail(name)) ELSE name

RECURSIVE TrimRight(_)
TrimRight(name) ==
    IF name # << >> /\ name[Len(name)] = ""
    THEN TrimRight(SubSeq(name, 1, Len(name) - 1)) ELSE name

TrimSpace(name) == TrimRight(TrimLeft(name))

\* strings.Fields: the words, whatever the spaces between them
Fields(name) == SelectSeq(name, LAMBDA w : w # "")

allowedStandardModifiers ==
    { "walking", "midweek", "carts", "can", "be", "added", "maylands" }

\* parenthesisRegex \(.+?\): a word that is a parenthesised text
IsParenthetical(w) == w \in { "(walking)", "(carts)" }

\* parenthesisRegex.ReplaceAllString(name, ""): the text goes, the spaces
\* around it stay
RemoveParentheses(name) ==
    [ i \in DOMAIN name |-> IF IsParenthetical(name[i]) THEN "" ELSE name[i] ]

\* the words of the labels that end with the digits
EndsWithDigits(w, digits) ==
    IF digits = "9" THEN w \in { "9", "19" } ELSE w = digits

\* strings.Contains(name, digits + " hole"): a word that ends with the digits,
\* one space, and a word that starts with "hole"
ContainsHoleRef(name, digits) ==
    \E i \in 1..(Len(name) - 1) :
        EndsWithDigits(name[i], digits) /\ name[i + 1] \in { "hole", "holes" }

\* the index of the word "hole" or "holes" that ends a match of
\* \b<digits>\s*hole(s)?\b starting at the word i, or 0
RECURSIVE HoleMatchEnd(_, _)
HoleMatchEnd(name, j) ==
    IF j > Len(name) THEN 0
    ELSE IF name[j] = "" THEN HoleMatchEnd(name, j + 1)
    ELSE IF name[j] \in { "hole", "holes" } THEN j
    ELSE 0

\* nineHoleRegex / eighteenHoleRegex .ReplaceAllString(name, digits + " holes")
RECURSIVE ReplaceHoles(_, _, _)
ReplaceHoles(name, digits, i) ==
    IF i > Len(name) THEN << >>
    ELSE LET j == IF name[i] = digits THEN HoleMatchEnd(name, i + 1) ELSE 0
         IN  IF j > 0
             THEN << digits, "holes" >> \o ReplaceHoles(name, digits, j + 1)
             ELSE << name[i] >> \o ReplaceHoles(name, digits, i + 1)

\* both replacements, lines 1275-1278
CanonHoles(name) == ReplaceHoles(ReplaceHoles(name, "9", 1), "18", 1)

\* nineHoleRegex.MatchString / eighteenHoleRegex.MatchString
MatchesHoleRegex(name, digits) ==
    \E i \in DOMAIN name : name[i] = digits /\ HoleMatchEnd(name, i + 1) > 0

\* the loop dropping every "9 holes" / "18 holes" word pair (skipNext)
RECURSIVE DropHolePairs(_, _, _)
DropHolePairs(words, i, skipNext) ==
    IF i > Len(words) THEN << >>
    ELSE IF words[i] \in { "9", "18" } /\ i + 1 <= Len(words) /\ words[i + 1] = "holes"
         THEN DropHolePairs(words, i + 1, TRUE)
    ELSE IF skipNext THEN DropHolePairs(words, i + 1, FALSE)
    ELSE << words[i] >> \o DropHolePairs(words, i + 1, FALSE)

\* the same without the trim that follows the removal of the parentheses
PrepareNameUntrimmed(originalName) ==
    RemoveParentheses(ToLower(TrimSpace(originalName)))

\* lines 1260-1264: lower case, no parenthesised text, no space at the ends
PrepareName(originalName) ==
    TrimSpace(RemoveParentheses(ToLower(TrimSpace(originalName))))

\* lines 1266-1268: hasNine, hasEighteen
DetectHoles(name) ==
    [ hasNine |-> ContainsHoleRef(name, "9"),
      hasEighteen |-> ContainsHoleRef(name, "18") ]

\* normaliseGameName asking for the 18-hole token first
normaliseGameNameEighteenFirst(originalName) ==
    LET name == PrepareName(originalName)
        has == DetectHoles(name)
        canon == CanonHoles(name)
        filtered == DropHolePairs(Fields(canon), 1, FALSE)
        finalWords == SelectSeq(filtered, LAMBDA w : w \notin allowedStandardModifiers)
    IN  IF ~has.hasNine /\ ~has.hasEighteen THEN Title(name)
        ELSE IF finalWords = << >> /\ has.hasEighteen THEN << "18", "Holes" >>
        ELSE IF finalWords = << >> /\ has.hasNine THEN << "9", "Holes" >>
        ELSE Title(canon)

normaliseGameName(originalName) ==
    LET name == PrepareName(originalName)
        has == DetectHoles(name)
        canon == CanonHoles(name)
        filtered == DropHolePairs(Fields(canon), 1, FALSE)
        finalWords == SelectSeq(filtered, LAMBDA w : w \notin allowedStandardModifiers)
    IN  IF ~has.hasNine /\ ~has.hasEighteen THEN Title(name)
        ELSE IF finalWords = << >> /\ has.hasNine THEN << "9", "Holes" >>
        ELSE IF finalWords = << >> /\ has.hasEighteen THEN << "18", "Holes" >>
        ELSE Title(canon)

\* isStandardGame knowing the hole counts only
isStandardGameHolesOnly(name) ==
    ToLower(TrimSpace(name)) \in { << "9", "holes" >>, << "18", "holes" >> }

isStandardGame(name) ==
    ToLower(TrimSpace(name)) \in { << "9", "holes" >>, << "18", "holes" >>, << "twilight" >> }

\* uniqueNames: the first occurrences, in order
RECURSIVE uniqueNames(_)
uniqueNames(items) ==
    IF items = << >> THEN << >>
    ELSE LET front == uniqueNames(SubSeq(items, 1, Len(items) - 1))
             last == items[Len(items)]
         IN  IF last \in Range(front) THEN front ELSE Append(front, last)

\* categoriseGames keeping the URL a pair already has
RECURSIVE categoriseGamesKeepFirst(_, _, _, _, _, _)
categoriseGamesKeepFirst(gameTimeslotURLs, order, courseName, std, promo, catalog) ==
    IF order = << >>
    THEN [ standardGames |-> std, promoGames |-> promo, catalog |-> catalog ]
    ELSE LET name == Head(order)
             normalisedName == normaliseGameName(name)
             inner == IF normalisedName \in DOMAIN catalog
                      THEN catalog[normalisedName] ELSE EmptyMap
         IN  categoriseGamesKeepFirst(
                 gameTimeslotURLs, Tail(order), courseName,
                 IF isStandardGame(normalisedName)
                 THEN Append(std, normalisedName) ELSE std,
                 IF isStandardGame(normalisedName)
                 THEN promo ELSE Append(promo, normalisedName),
                 MapPut(catalog, normalisedName,
                        IF courseName \in DOMAIN inner THEN inner
                        ELSE MapPut(inner, courseName, gameTimeslotURLs[name])))

\* categoriseGames, visiting the raw names of one course in the given order
\* (Go leaves the iteration order of the map unspecified)
RECURSIVE categoriseGames(_, _, _, _, _, _)
categoriseGames(gameTimeslotURLs, order, courseName, std, promo, catalog) ==
    IF order = << >>
    THEN [ standardGames |-> std, promoGames |-> promo, catalog |-> catalog ]
    ELSE LET name == Head(order)
             normalisedName == normaliseGameName(name)
             inner == IF normalisedName \in DOMAIN catalog
                      THEN catalog[normalisedName] ELSE EmptyMap
         IN  categoriseGames(
                 gameTimeslotURLs, Tail(order), courseName,
                 IF isStandardGame(normalisedName)
                 THEN Append(std, normalisedName) ELSE std,
                 IF isStandardGame(normalisedName)
                 THEN promo ELSE Append(promo, normalisedName),
                 MapPut(catalog, normalisedName,
                        MapPut(inner, courseName, gameTimeslotURLs[name])))

\* the loop without the test of line 851: a game is kept whatever is left
RECURSIVE FilterGamesKeepEmpty(_, _, _, _)
FilterGamesKeepEmpty(games, kept, catalog, preScraped) ==
    IF games = << >> THEN [ games |-> kept, catalog |-> catalog ]
    ELSE LET game == Head(games)
         IN  IF game \notin DOMAIN preScraped
             THEN FilterGamesKeepEmpty(Tail(games), kept, catalog, preScraped)
             ELSE LET courseMap == preScraped[game]
                      old == IF game \in DOMAIN catalog THEN catalog[game] ELSE EmptyMap
                      keep == { c \in DOMAIN old : LenAt(courseMap, c) > 0 }
                      filteredCourseMap == [ c \in keep |-> old[c] ]
                  IN  FilterGamesKeepEmpty(Tail(games), Append(kept, game),
                                           MapPut(catalog, game, filteredCourseMap),
                                           preScraped)

\* one of the two loops of filterAvailableGamesAndCourses, over `games`
RECURSIVE FilterGames(_, _, _, _)
FilterGames(games, kept, catalog, preScraped) ==
    IF games = << >> THEN [ games |-> kept, catalog |-> catalog ]
    ELSE LET game == Head(games)
         IN  IF game \notin DOMAIN preScraped
             THEN FilterGames(Tail(games), kept, catalog, preScraped)
             ELSE LET courseMap == preScraped[game]
                      old == IF game \in DOMAIN catalog THEN catalog[game] ELSE EmptyMap
                      keep == { c \in DOMAIN old : LenAt(courseMap, c) > 0 }
                      filteredCourseMap == [ c \in keep |-> old[c] ]
                  IN  IF keep # {}
                      THEN FilterGames(Tail(games), Append(kept, game),
                                       MapPut(catalog, game, filteredCourseMap),
                                       preScraped)
                      ELSE FilterGames(Tail(games), kept, MapDel(catalog, game),
                                       preScraped)

\* filterAvailableGamesAndCourses returning the lists it was given
filterAvailableGamesAndCoursesOldLists(std, promo, catalog, preScraped) ==
    LET s == FilterGames(std, << >>, catalog, preScraped)
        p == FilterGames(promo, << >>, s.catalog, preScraped)
    IN  [ standardGames |-> std, promoGames |-> promo, catalog |-> p.catalog ]

filterAvailableGamesAndCourses(std, promo, catalog, preScraped) ==
    LET s == FilterGames(std, << >>, catalog, preScraped)
        p == FilterGames(promo, << >>, s.catalog, preScraped)
    IN  [ standardGames |-> s.games, promoGames |-> p.games, catalog |-> p.catalog ]


----------------------------------------------------------------------------
(* The configured courses and the booking sites *)

Courses == { "Alpha", "Beta" }

WebsiteTypeOf(c) == IF c = "Alpha" THEN "miclub" ELSE "quick18"

\* the config files the run can find: which courses are blacklisted
Configs ==
    { [ c \in Courses |-> [ URL |-> c, WebsiteType |-> WebsiteTypeOf(c),
                            Blacklisted |-> (c \in bl) ] ] : bl \in SUBSET Courses }

\* strings.ToLower on a course name
LowerName(n) == CASE n = "Alpha" -> "alpha"
                  [] n = "Beta" -> "beta"
                  [] OTHER -> n

\* findCourseInsensitive: the config keys equal to `typed` ignoring case
findCourseInsensitive(all, typed) ==
    { k \in all : LowerName(k) = LowerName(typed) }

\* values of the --courses flag and of the form's course field (split at commas)
CourseListInputs == { << >>, << "alpha" >>, << "nowhere" >> }
ChoiceInputs == { << >>, << "beta" >> }
DateInputs == { "", "malformed", "past", "today", "future" }
TimeInputs == { << >>, << 1, 0 >>, << 13, 0 >>, << 25, 99 >> }
SpotsInputs == { 0, 3, 5 }

Slot(hh, mm, mer, n) ==
    [ Time |-> [ hh |-> hh, mm |-> mm, mer |-> mer ], AvailableSpots |-> n ]

NoURL == [ site |-> "", page |-> << >> ]

\* miclub gives every game row its own URL; quick18 gives every column the
\* URL of the one matrix page
AccessURL(c, label) ==
    IF WebsiteTypeOf(c) = "quick18"
    THEN [ site |-> c, page |-> << "matrix" >> ]
    ELSE [ site |-> c, page |-> label ]

GamesPage(c, labels) == [ l \in labels |-> AccessURL(c, l) ]

\* what ScrapeDates can return for a course: an error, or raw name -> URL
DatePages(c) ==
    IF WebsiteTypeOf(c) = "miclub"
    THEN { [ err |-> TRUE, games |-> EmptyMap ],
           [ err |-> FALSE,
             games |-> GamesPage(c, { << "9", "Holes" >>,
                                      << "9", "holes", "(Walking)" >> }) ],
           [ err |-> FALSE,
             games |-> GamesPage(c, { << "18", "Holes" >>,
                                      << "Twilight", "Special" >> }) ] }
    ELSE { [ err |-> TRUE, games |-> EmptyMap ],
           [ err |-> FALSE,
             games |-> GamesPage(c, { << "18", "Holes" >>, << "9", "Holes" >> }) ] }

\* what ScrapeTimes can return for a URL: an error, or layout -> slots
TimePages(url) ==
    IF WebsiteTypeOf(url.site) = "miclub"
    THEN { [ err |-> TRUE, times |-> EmptyMap ],
           [ err |-> FALSE, times |-> EmptyMap ],
           [ err |-> FALSE,
             times |-> [ l \in { << "North" >> } |->
                         << Slot(8, 0, "AM", 2), Slot(1, 30, "PM", 4),
                            Slot(9, 0, "AM", 1) >> ] ],
           [ err |-> FALSE,
             times |-> [ l \in { << "North" >>, << "South" >> } |->
                         IF l = << "North" >>
                         THEN << Slot(2, 0, "pm", 3), Slot(12, 30, "AM", 4) >>
                         ELSE << Slot(13, 0, "PM", 4), Slot(12, 0, "PM", 1) >> ] ] }
    ELSE { [ err |-> TRUE, times |-> EmptyMap ],
           [ err |-> FALSE,
             times |-> [ l \in { << "18", "Holes" >>, << "9", "Holes" >> } |->
                         IF l = << "18", "Holes" >>
                         THEN << Slot(2, 1, "PM", 4), Slot(12, 0, "PM", 3) >>
                         ELSE << Slot(1, 0, "AM", 4) >> ] ] }

\* runScraper lines 619-661: the courses to search
RestrictCourses(all, typed) ==
    [ err |-> \E i \in DOMAIN typed : findCourseInsensitive(all, typed[i]) = {},
      names |-> UNION { findCourseInsensitive(all, typed[i]) : i \in DOMAIN typed } ]

SelectedCourses(cfg, list, typedChoice) ==
    LET all == DOMAIN cfg
        byFlag == RestrictCourses(all, list)
        byForm == RestrictCourses(all, typedChoice)
        chosen == IF Len(list) > 0 THEN byFlag.names
                  ELSE IF typedChoice # << >> /\ byForm.names # {} THEN byForm.names
                  ELSE all
        err == IF Len(list) > 0 THEN byFlag.err
               ELSE IF typedChoice # << >> THEN byForm.err
               ELSE FALSE
    IN  [ err |-> err,
          courses |-> { n \in chosen : ~cfg[n].Blacklisted } ]


----------------------------------------------------------------------------
(* runScraper *)

NoShow == [ report |-> "", layouts |-> << >>, times |-> EmptyMap ]

NoPair == << << >>, "" >>

FilterIdle ==
    /\ fIn = EmptyMap /\ fCentre = << >> /\ fSpots = 0
    /\ fOut = NoShow /\ fPre = EmptyMap /\ fPreLayouts = << >> /\ fPc = "off"

NoDetect == [ hasNine |-> FALSE, hasEighteen |-> FALSE ]

NoCat == [ standardGames |-> << >>, promoGames |-> << >>, catalog |-> EmptyMap ]

NamesIdle ==
    /\ nIn = << >> /\ nDetect = NoDetect /\ nOut = << >> /\ nAgain = << >>
    /\ nPage = EmptyMap /\ nOrder = << >> /\ nCat = NoCat /\ nPc = "off"

\* no progress display yet, the start form not yet left
SessionIdle ==
    /\ formExit = "none" /\ progressProgram = "nil" /\ pbMsgs = << >>

NoForm == [ locked |-> << >>, focus |-> 0, done |-> FALSE ]

StartFormIdle == startForm = NoForm /\ lastKey = "none"

NoEditor == [ courses |-> << >>, cursor |-> 0 ]

ConfigIdle ==
    /\ configFile = << >> /\ fileBefore = << >> /\ toWrite = << >>
    /\ loaded = EmptyMap /\ blacklist = NoEditor /\ editorKey = "none"
    /\ cPc = "off"

ToolsIdle == StartFormIdle /\ ConfigIdle

Init ==
    /\ pc = "LoadCourses"
    /\ exitReason = ""
    /\ config \in Configs
    /\ courseList \in CourseListInputs
    /\ verboseMode \in BOOLEAN
    /\ choice = << >>
    /\ specifiedDate \in DateInputs
    /\ specifiedTime \in TimeInputs
    /\ specifiedSpots \in SpotsInputs
    /\ courses = {}
    /\ filterStartMinutes = 0
    /\ filterEndMinutes = 0
    /\ spotsFilterUsed = FALSE
    /\ timeFilterUsed = FALSE
    /\ standardGames = << >>
    /\ promoGames = << >>
    /\ gameToTimeslotURLs = EmptyMap
    /\ preScrapedTimes = EmptyMap
    /\ coursesLeft = {}
    /\ pairsLeft = {}
    /\ selectedGame = << >>
    /\ selectedCourse = ""
    /\ timeslotURL = NoURL
    /\ shown = NoShow
    /\ bookingURL = NoURL
    /\ lastAnswer = "none"
    /\ looped = FALSE
    /\ scrapeDatesCalls = {}
    /\ preFetched = {}
    /\ lastShowFetch = NoPair
    /\ failedUnits = {}
    /\ reported = {}
    /\ SessionIdle
    /\ FilterIdle
    /\ NamesIdle
    /\ ToolsIdle

\* runScraper returns
Return(why) ==
    /\ pc' = "Done"
    /\ exitReason' = why

\* loadCourses (589-595): the config is read, or the run stops
LoadCourses ==
    /\ pc = "LoadCourses"
    /\ \E readable \in BOOLEAN :
        IF readable
        THEN /\ pc' = "StartForm"
             /\ courses' = DOMAIN config
             /\ UNCHANGED exitReason
        ELSE /\ Return("config error")
             /\ UNCHANGED courses
    /\ UNCHANGED << cfgVars, formVars, windowVars, timeFilterUsed, catalogVars,
                    preScrapedTimes, coursesLeft, pairsLeft, pickVars, uiVars,
                    fetchVars, errVars, filterVars, nameVars,
                    sessionVars, toolVars >>

\* newStartFormModel: the four inputs (courses, date, time, spots) hold the
\* flag values, a field given by a flag is locked, and the first editable
\* field, if any, has the focus (focus counts from 0 as in the code)
newStartFormModel(list, date, time, spots) ==
    LET locked == << Len(list) > 0, date # "", time # << >>, spots > 0 >>
        editable == { i \in 0..3 : ~locked[i + 1] }
    IN  [ in |-> << list, date, time, spots >>,
          locked |-> locked,
          focus |-> IF editable = {} THEN 0
                    ELSE CHOOSE i \in editable : \A j \in editable : i <= j,
          done |-> FALSE ]

RECURSIVE NextEditableFrom(_, _, _, _)
\* the loop of nextEditable after i passes
NextEditableFrom(locked, from, dir, i) ==
    IF i = Len(locked) THEN from
    ELSE LET to == (from + dir + Len(locked)) % Len(locked)
         IN  IF ~locked[to + 1] THEN to
             ELSE NextEditableFrom(locked, to, dir, i + 1)

\* startFormModel.nextEditable
nextEditable(m, from, dir) == NextEditableFrom(m.locked, from, dir, 0)

\* startFormModel.isLastEditable
isLastEditable(m, idx) ==
    \A i \in (idx + 1)..(Len(m.locked) - 1) : m.locked[i + 1]

\* the keys startFormModel.Update distinguishes
FormKeys == { "enter", "esc", "ctrl+c", "up", "down", "tab" }

\* startFormModel.Update with Enter finishing the form on a locked field too
startFormUpdateEnterAlwaysEnds(m, key) ==
    CASE key \in { "ctrl+c", "esc" } -> [ m EXCEPT !.done = TRUE ]
      [] key = "enter" ->
            IF isLastEditable(m, m.focus)
            THEN [ m EXCEPT !.done = TRUE ]
            ELSE [ m EXCEPT !.focus = nextEditable(m, m.focus, 1) ]
      [] key = "up" -> [ m EXCEPT !.focus = nextEditable(m, m.focus, -1) ]
      [] OTHER -> [ m EXCEPT !.focus = nextEditable(m, m.focus, 1) ]

\* startFormModel.Update for a key message; done is set exactly when the
\* command returned is tea.Quit
startFormUpdate(m, key) ==
    CASE key \in { "ctrl+c", "esc" } -> [ m EXCEPT !.done = TRUE ]
      [] key = "enter" ->
            IF m.locked[m.focus + 1]
            THEN [ m EXCEPT !.focus = nextEditable(m, m.focus, 1) ]
            ELSE IF isLastEditable(m, m.focus)
                 THEN [ m EXCEPT !.done = TRUE ]
                 ELSE [ m EXCEPT !.focus = nextEditable(m, m.focus, 1) ]
      [] key = "up" -> [ m EXCEPT !.focus = nextEditable(m, m.focus, -1) ]
      [] OTHER -> [ m EXCEPT !.focus = nextEditable(m, m.focus, 1) ]

RECURSIVE PressEnterTimes(_, _)
\* the form after at most n presses of Enter
PressEnterTimes(m, n) ==
    IF n = 0 \/ m.done THEN m
    ELSE PressEnterTimes(startFormUpdate(m, "enter"), n - 1)

\* Enter alone can finish the form
EnterCompletes(m) == PressEnterTimes(m, Len(m.locked) + 1).done

\* the keys the form can end with: Esc or Ctrl+C always, Enter when it can
\* finish the form
ExitKeys(m) == { "esc" } \cup (IF EnterCompletes(m) THEN { "enter" } ELSE {})

\* collectStartAnswers and lines 597-615: a field given by a flag is locked
\* and keeps its value, the others take what the user typed; the answers
\* are returned whichever key ended the form
CollectStartAnswers ==
    /\ pc = "StartForm"
    /\ formExit' \in ExitKeys(newStartFormModel(courseList, specifiedDate,
                                                 specifiedTime, specifiedSpots))
    /\ \E typedChoice \in ChoiceInputs, date \in DateInputs,
          time \in TimeInputs, spots \in { n \in SpotsInputs : n >= 0 } :
        /\ choice' = IF Len(courseList) > 0 THEN courseList ELSE typedChoice
        /\ specifiedDate' = IF specifiedDate # "" THEN specifiedDate ELSE date
        /\ specifiedTime' = IF specifiedTime # << >> THEN specifiedTime ELSE time
        /\ specifiedSpots' = IF specifiedSpots > 0 THEN specifiedSpots
                             ELSE IF spots > 0 THEN spots ELSE specifiedSpots
    /\ pc' = "SelectCourses"
    /\ UNCHANGED << exitReason, cfgVars, courses, windowVars, timeFilterUsed,
                    catalogVars, preScrapedTimes, coursesLeft, pairsLeft,
                    pickVars, uiVars, fetchVars, errVars, filterVars, nameVars,
                    progressProgram, pbMsgs, toolVars >>

\* lines 619-661: restrict to the named courses, drop the blacklisted ones
SelectCourses ==
    /\ pc = "SelectCourses"
    /\ LET r == SelectedCourses(config, courseList, choice)
       IN  IF r.err
           THEN /\ Return("unknown course")
                /\ UNCHANGED courses
           ELSE /\ pc' = "Validate"
                /\ courses' = r.courses
                /\ UNCHANGED exitReason
    /\ UNCHANGED << cfgVars, formVars, windowVars, timeFilterUsed, catalogVars,
                    preScrapedTimes, coursesLeft, pairsLeft, pickVars, uiVars,
                    fetchVars, errVars, filterVars, nameVars,
                    sessionVars, toolVars >>

\* pbModel.Update for a pbMsg: the count is stored and the program quits
\* once it reaches the total
pbUpdate(total, v) == [ done |-> v, quit |-> v >= total ]

\* progressProgram.Send(pbMsg(v)) as the display takes it
SendPbMsg(state, total, v) ==
    IF state = "running" /\ pbUpdate(total, v).quit THEN "quit" ELSE state

\* lines 663-690 with the three validations only logged
ValidateGoesOn ==
    /\ pc = "Validate"
    /\ progressProgram' = "running"
    /\ LET t == handleTimeInput(specifiedTime, specifiedDate)
           sp == handleSpotsInput(specifiedSpots)
       IN  /\ pc' = "ScrapeCourseData"
           /\ filterStartMinutes' = t.start
           /\ filterEndMinutes' = t.end
           /\ spotsFilterUsed' = sp.used
           /\ coursesLeft' = courses
           /\ UNCHANGED exitReason
    /\ UNCHANGED << cfgVars, formVars, courses, timeFilterUsed, catalogVars,
                    preScrapedTimes, pairsLeft, pickVars, uiVars, fetchVars,
                    errVars, filterVars, nameVars, formExit, pbMsgs, toolVars >>

\* lines 663-690: the progress display is started, then handleDateInput,
\* handleTimeInput, handleSpotsInput
Validate ==
    /\ pc = "Validate"
    /\ progressProgram' = "running"
    /\ LET d == handleDateInput(specifiedDate)
           t == handleTimeInput(specifiedTime, specifiedDate)
           sp == handleSpotsInput(specifiedSpots)
       IN  IF d.err \/ t.err \/ sp.err
           THEN /\ Return("validation error")
                /\ UNCHANGED << windowVars, coursesLeft >>
           ELSE /\ pc' = "ScrapeCourseData"
                /\ filterStartMinutes' = t.start
                /\ filterEndMinutes' = t.end
                /\ spotsFilterUsed' = sp.used
                /\ coursesLeft' = courses
                /\ UNCHANGED exitReason
    /\ UNCHANGED << cfgVars, formVars, courses, timeFilterUsed, catalogVars,
                    preScrapedTimes, pairsLeft, pickVars, uiVars, fetchVars,
                    errVars, filterVars, nameVars, formExit, pbMsgs, toolVars >>


\* the (game, course) pairs of a catalog
PairsOf(catalog) ==
    UNION { { << g, c >> : c \in DOMAIN catalog[g] } : g \in DOMAIN catalog }

\* the loop of scrapeCourseData with a failure that ends the loop
ScrapeCourseAbort(c) ==
    /\ pc = "ScrapeCourseData"
    /\ c \in coursesLeft
    /\ \E page \in DatePages(c) :
        /\ scrapeDatesCalls' = scrapeDatesCalls \cup {c}
        /\ IF page.err
           THEN /\ failedUnits' = failedUnits \cup { << "course", << >>, c >> }
                /\ reported' = reported \cup { << "course", << >>, c >> }
                /\ coursesLeft' = {}
                /\ UNCHANGED << catalogVars, progressProgram, pbMsgs >>
           ELSE /\ \E order \in PermsOf(DOMAIN page.games) :
                    LET r == categoriseGames(page.games, order, c, standardGames,
                                             promoGames, gameToTimeslotURLs)
                    IN  /\ standardGames' = r.standardGames
                        /\ promoGames' = r.promoGames
                        /\ gameToTimeslotURLs' = r.catalog
                /\ coursesLeft' = coursesLeft \ {c}
                /\ pbMsgs' = Append(pbMsgs, Len(pbMsgs) + 1)
                /\ progressProgram' = SendPbMsg(progressProgram,
                                                Cardinality(courses),
                                                Len(pbMsgs) + 1)
                /\ UNCHANGED errVars
    /\ UNCHANGED << pc, exitReason, cfgVars, formVars, courses, windowVars,
                    timeFilterUsed, preScrapedTimes, pairsLeft, pickVars, uiVars,
                    preFetched, lastShowFetch, filterVars, nameVars, formExit,
                    toolVars >>

\* the loop of scrapeCourseData sending the count after a failed course too
ScrapeCourseCountsFailures(c) ==
    /\ pc = "ScrapeCourseData"
    /\ c \in coursesLeft
    /\ coursesLeft' = coursesLeft \ {c}
    /\ pbMsgs' = Append(pbMsgs, Len(pbMsgs) + 1)
    /\ progressProgram' = SendPbMsg(progressProgram, Cardinality(courses),
                                    Len(pbMsgs) + 1)
    /\ \E page \in DatePages(c) :
        /\ scrapeDatesCalls' = scrapeDatesCalls \cup {c}
        /\ IF page.err
           THEN /\ failedUnits' = failedUnits \cup { << "course", << >>, c >> }
                /\ reported' = reported \cup { << "course", << >>, c >> }
                /\ UNCHANGED catalogVars
           ELSE /\ \E order \in PermsOf(DOMAIN page.games) :
                    LET r == categoriseGames(page.games, order, c, standardGames,
                                             promoGames, gameToTimeslotURLs)
                    IN  /\ standardGames' = r.standardGames
                        /\ promoGames' = r.promoGames
                        /\ gameToTimeslotURLs' = r.catalog
                /\ UNCHANGED errVars
    /\ UNCHANGED << pc, exitReason, cfgVars, formVars, courses, windowVars,
                    timeFilterUsed, preScrapedTimes, pairsLeft, pickVars, uiVars,
                    preFetched, lastShowFetch, filterVars, nameVars, formExit,
                    toolVars >>

\* one pass of the loop of scrapeCourseData (1201-1234), for course c; the
\* local counter `scraped` is the number of counts sent so far
ScrapeCourse(c) ==
    /\ pc = "ScrapeCourseData"
    /\ c \in coursesLeft
    /\ coursesLeft' = coursesLeft \ {c}
    /\ IF config[c].WebsiteType \notin { "miclub", "quick18" }
       THEN UNCHANGED << catalogVars, scrapeDatesCalls, errVars,
                         progressProgram, pbMsgs >>
       ELSE \E page \in DatePages(c) :
            /\ scrapeDatesCalls' = scrapeDatesCalls \cup {c}
            /\ IF page.err
               THEN /\ failedUnits' = failedUnits \cup { << "course", << >>, c >> }
                    /\ reported' = reported \cup { << "course", << >>, c >> }
                    /\ UNCHANGED << catalogVars, progressProgram, pbMsgs >>
               ELSE /\ \E order \in PermsOf(DOMAIN page.games) :
                        LET r == categoriseGames(page.games, order, c, standardGames,
                                                 promoGames, gameToTimeslotURLs)
                        IN  /\ standardGames' = r.standardGames
                            /\ promoGames' = r.promoGames
                            /\ gameToTimeslotURLs' = r.catalog
                    /\ pbMsgs' = Append(pbMsgs, Len(pbMsgs) + 1)
                    /\ progressProgram' = SendPbMsg(progressProgram,
                                                    Cardinality(courses),
                                                    Len(pbMsgs) + 1)
                    /\ UNCHANGED errVars
    /\ UNCHANGED << pc, exitReason, cfgVars, formVars, courses, windowVars,
                    timeFilterUsed, preScrapedTimes, pairsLeft, pickVars, uiVars,
                    preFetched, lastShowFetch, filterVars, nameVars, formExit,
                    toolVars >>

\* line 709 testing only the start of the window
TimeFilterUsedStartOnly(start, end, spotsUsed) == start # 0 \/ spotsUsed

\* line 709
TimeFilterUsed(start, end, spotsUsed) == (start # 0 \/ end # 0) \/ spotsUsed

\* lines 692-732 after the loop: the display is sent the total and waited
\* for, then no games, or choose eager or lazy mode
FinishScrape ==
    /\ pc = "ScrapeCourseData"
    /\ coursesLeft = {}
    /\ pbMsgs' = Append(pbMsgs, Cardinality(courses))
    /\ progressProgram' = "waited"
    /\ IF Len(standardGames) = 0 /\ Len(promoGames) = 0
       THEN /\ Return("no games")
            /\ UNCHANGED << timeFilterUsed, pairsLeft >>
       ELSE LET used == TimeFilterUsed(filterStartMinutes, filterEndMinutes,
                                       spotsFilterUsed)
            IN  /\ timeFilterUsed' = used
                /\ IF used \/ spotsFilterUsed
                   THEN /\ pc' = "PreScrape"
                        /\ pairsLeft' = PairsOf(gameToTimeslotURLs)
                   ELSE /\ pc' = "SelectCategory"
                        /\ UNCHANGED pairsLeft
                /\ UNCHANGED exitReason
    /\ UNCHANGED << cfgVars, formVars, courses, windowVars, catalogVars,
                    preScrapedTimes, coursesLeft, pickVars, uiVars, fetchVars,
                    errVars, filterVars, nameVars, formExit, toolVars >>

\* no column filter: every column of the page is kept
OnlyColumnKeepAll(times, game) == times

\* the quick18 column filter: only the column named like the game
OnlyColumn(times, game) ==
    [ l \in (DOMAIN times) \cap { game } |-> times[l] ]

\* one pass of the inner loop of preScrapeAllTimes (801-832)
PreScrapePair(game, courseName) ==
    /\ pc = "PreScrape"
    /\ << game, courseName >> \in pairsLeft
    /\ pairsLeft' = pairsLeft \ { << game, courseName >> }
    /\ preFetched' = preFetched \cup { << game, courseName >> }
    /\ \E page \in TimePages(gameToTimeslotURLs[game][courseName]) :
        LET inner == IF game \in DOMAIN preScrapedTimes
                     THEN preScrapedTimes[game] ELSE EmptyMap
            availableTimes ==
                IF config[courseName].WebsiteType = "quick18"
                THEN OnlyColumn(page.times, game) ELSE page.times
            filteredTimes == filterAndSortTimes(availableTimes, filterStartMinutes,
                                                filterEndMinutes, specifiedSpots)
        IN  IF page.err
            THEN /\ preScrapedTimes' = MapPut(preScrapedTimes, game, inner)
                 /\ failedUnits' = failedUnits \cup { << "pair", game, courseName >> }
                 /\ reported' = IF verboseMode
                                THEN reported \cup { << "pair", game, courseName >> }
                                ELSE reported
            ELSE /\ preScrapedTimes' =
                        MapPut(preScrapedTimes, game,
                               MapPut(inner, courseName, filteredTimes))
                 /\ UNCHANGED errVars
    /\ UNCHANGED << pc, exitReason, cfgVars, formVars, courses, windowVars,
                    timeFilterUsed, catalogVars, coursesLeft, pickVars, uiVars,
                    scrapeDatesCalls, lastShowFetch, filterVars, nameVars,
                    sessionVars, toolVars >>

\* lines 724-731: filterAvailableGamesAndCourses on the pre-scraped times
FilterAvailable ==
    /\ pc = "PreScrape"
    /\ pairsLeft = {}
    /\ LET r == filterAvailableGamesAndCourses(standardGames, promoGames,
                                               gameToTimeslotURLs, preScrapedTimes)
       IN  /\ standardGames' = r.standardGames
           /\ promoGames' = r.promoGames
           /\ gameToTimeslotURLs' = r.catalog
           /\ IF Len(r.standardGames) = 0 /\ Len(r.promoGames) = 0
              THEN Return("no games in range")
              ELSE pc' = "SelectCategory" /\ UNCHANGED exitReason
    /\ UNCHANGED << cfgVars, formVars, courses, windowVars, timeFilterUsed,
                    preScrapedTimes, coursesLeft, pairsLeft, pickVars, uiVars,
                    fetchVars, errVars, filterVars, nameVars,
                    sessionVars, toolVars >>


Promos == << "Promos" >>

\* the menu of promptGameSelection without uniqueNames
GameOptionsRepeats(std, promo) ==
    IF Len(promo) > 0 THEN Append(std, Promos) ELSE std

\* the menu of promptGameSelection (1325-1328)
GameOptions(std, promo) ==
    IF Len(promo) > 0 THEN Append(uniqueNames(std), Promos) ELSE uniqueNames(std)

\* the loop is left: lines 738-741 and 746-749
Break(answer) ==
    /\ lastAnswer' = answer
    /\ Return("stopped")
    /\ UNCHANGED << shown, bookingURL, looped >>

\* promptGameSelection, first menu (1324-1337, 738-741)
PromptGameSelection ==
    /\ pc = "SelectCategory"
    /\ \/ /\ \E answer \in { "cancel", "error" } : Break(answer)
          /\ UNCHANGED pickVars
       \/ /\ \E pick \in Range(GameOptions(standardGames, promoGames)) :
                IF pick = Promos
                THEN /\ pc' = "SelectPromo"
                     /\ UNCHANGED pickVars
                ELSE /\ pc' = "SelectCourse"
                     /\ selectedGame' = pick
                     /\ UNCHANGED << selectedCourse, timeslotURL >>
          /\ lastAnswer' = "pick"
          /\ UNCHANGED << exitReason, shown, bookingURL, looped >>
    /\ UNCHANGED << cfgVars, formVars, courses, windowVars, timeFilterUsed,
                    catalogVars, preScrapedTimes, coursesLeft, pairsLeft,
                    fetchVars, errVars, filterVars, nameVars,
                    sessionVars, toolVars >>

\* promptGameSelection, the promo menu (1339-1345, 738-741)
PromptPromoSelection ==
    /\ pc = "SelectPromo"
    /\ \/ /\ \E answer \in { "cancel", "error" } : Break(answer)
          /\ UNCHANGED pickVars
       \/ /\ \E pick \in Range(uniqueNames(promoGames)) :
                /\ pc' = "SelectCourse"
                /\ selectedGame' = pick
                /\ UNCHANGED << selectedCourse, timeslotURL >>
          /\ lastAnswer' = "pick"
          /\ UNCHANGED << exitReason, shown, bookingURL, looped >>
    /\ UNCHANGED << cfgVars, formVars, courses, windowVars, timeFilterUsed,
                    catalogVars, preScrapedTimes, coursesLeft, pairsLeft,
                    fetchVars, errVars, filterVars, nameVars,
                    sessionVars, toolVars >>

\* promptCourseSelection with a cancel that steps back to the game menu
PromptCourseSelectionStepBack ==
    /\ pc = "SelectCourse"
    /\ LET coursesForGame == IF selectedGame \in DOMAIN gameToTimeslotURLs
                             THEN gameToTimeslotURLs[selectedGame] ELSE EmptyMap
       IN  \/ /\ pc' = "SelectCategory"
              /\ lastAnswer' = "cancel"
              /\ UNCHANGED << exitReason, pickVars, shown, bookingURL, looped >>
           \/ /\ \E pick \in DOMAIN coursesForGame :
                   /\ selectedCourse' = pick
                   /\ timeslotURL' = coursesForGame[pick]
              /\ pc' = "ShowSlots"
              /\ lastAnswer' = "pick"
              /\ UNCHANGED << exitReason, selectedGame, shown, bookingURL, looped >>
    /\ UNCHANGED << cfgVars, formVars, courses, windowVars, timeFilterUsed,
                    catalogVars, preScrapedTimes, coursesLeft, pairsLeft,
                    fetchVars, errVars, filterVars, nameVars,
                    sessionVars, toolVars >>

\* promptCourseSelection (1348-1368, 743-749)
PromptCourseSelection ==
    /\ pc = "SelectCourse"
    /\ LET coursesForGame == IF selectedGame \in DOMAIN gameToTimeslotURLs
                             THEN gameToTimeslotURLs[selectedGame] ELSE EmptyMap
       IN  IF DOMAIN coursesForGame = {}
           THEN /\ Break("no courses")
                /\ UNCHANGED pickVars
           ELSE \/ /\ \E answer \in { "cancel", "error" } : Break(answer)
                   /\ UNCHANGED pickVars
                \/ /\ \E pick \in DOMAIN coursesForGame :
                        /\ selectedCourse' = pick
                        /\ timeslotURL' = coursesForGame[pick]
                   /\ pc' = "ShowSlots"
                   /\ lastAnswer' = "pick"
                   /\ UNCHANGED << exitReason, selectedGame, shown, bookingURL,
                                   looped >>
    /\ UNCHANGED << cfgVars, formVars, courses, windowVars, timeFilterUsed,
                    catalogVars, preScrapedTimes, coursesLeft, pairsLeft,
                    fetchVars, errVars, filterVars, nameVars,
                    sessionVars, toolVars >>

\* handleTimesDisplayPreScraped (924-942), called at line 753
HandleTimesDisplayPreScraped ==
    /\ pc = "ShowSlots"
    /\ timeFilterUsed \/ spotsFilterUsed
    /\ LET forGame == IF selectedGame \in DOMAIN preScrapedTimes
                      THEN preScrapedTimes[selectedGame] ELSE EmptyMap
           stored == IF selectedCourse \in DOMAIN forGame
                     THEN forGame[selectedCourse] ELSE EmptyMap
           layoutTimes == IF config[selectedCourse].WebsiteType = "quick18"
                          THEN OnlyColumn(stored, selectedGame) ELSE stored
       IN  IF DOMAIN layoutTimes = {}
           THEN shown' = [ report |-> "no times with filters", layouts |-> << >>,
                           times |-> EmptyMap ]
           ELSE \E order \in sortLayoutsByEarliest(layoutTimes) :
                   shown' = [ report |-> "times", layouts |-> order,
                              times |-> layoutTimes ]
    /\ pc' = "ConfirmBooking"
    /\ UNCHANGED << exitReason, cfgVars, formVars, courses, windowVars,
                    timeFilterUsed, catalogVars, preScrapedTimes, coursesLeft,
                    pairsLeft, pickVars, bookingURL, lastAnswer, looped,
                    fetchVars, errVars, filterVars, nameVars,
                    sessionVars, toolVars >>

\* handleTimesDisplay with a fetch error that ends the run
HandleTimesDisplayFatal ==
    /\ pc = "ShowSlots"
    /\ ~(timeFilterUsed \/ spotsFilterUsed)
    /\ lastShowFetch' = << selectedGame, selectedCourse >>
    /\ \E page \in TimePages(timeslotURL) :
        LET availableTimes ==
                IF config[selectedCourse].WebsiteType = "quick18"
                THEN OnlyColumn(page.times, selectedGame) ELSE page.times
            r == sortTimesByLayoutAndSpots(availableTimes, filterStartMinutes,
                                           filterEndMinutes, specifiedSpots)
        IN  IF page.err
            THEN /\ shown' = [ report |-> "failed to scrape times",
                               layouts |-> << >>, times |-> EmptyMap ]
                 /\ Return("fetch error")
            ELSE /\ IF DOMAIN page.times = {}
                    THEN shown' = [ report |-> "no times found", layouts |-> << >>,
                                    times |-> EmptyMap ]
                    ELSE IF r.sortedLayouts = {} \/ DOMAIN r.layoutTimes = {}
                    THEN shown' = [ report |-> "no times with filters",
                                    layouts |-> << >>, times |-> EmptyMap ]
                    ELSE \E order \in r.sortedLayouts :
                            shown' = [ report |-> "times", layouts |-> order,
                                       times |-> r.layoutTimes ]
                 /\ pc' = "ConfirmBooking"
                 /\ UNCHANGED exitReason
    /\ UNCHANGED << cfgVars, formVars, courses, windowVars,
                    timeFilterUsed, catalogVars, preScrapedTimes, coursesLeft,
                    pairsLeft, pickVars, bookingURL, lastAnswer, looped,
                    scrapeDatesCalls, preFetched, errVars, filterVars, nameVars,
                    sessionVars, toolVars >>

\* handleTimesDisplay (964-1006), called at line 755
HandleTimesDisplay ==
    /\ pc = "ShowSlots"
    /\ ~(timeFilterUsed \/ spotsFilterUsed)
    /\ lastShowFetch' = << selectedGame, selectedCourse >>
    /\ \E page \in TimePages(timeslotURL) :
        LET availableTimes ==
                IF config[selectedCourse].WebsiteType = "quick18"
                THEN OnlyColumn(page.times, selectedGame) ELSE page.times
            r == sortTimesByLayoutAndSpots(availableTimes, filterStartMinutes,
                                           filterEndMinutes, specifiedSpots)
        IN  IF page.err
            THEN shown' = [ report |-> "failed to scrape times", layouts |-> << >>,
                            times |-> EmptyMap ]
            ELSE IF DOMAIN page.times = {}
            THEN shown' = [ report |-> "no times found", layouts |-> << >>,
                            times |-> EmptyMap ]
            ELSE IF r.sortedLayouts = {} \/ DOMAIN r.layoutTimes = {}
            THEN shown' = [ report |-> "no times with filters", layouts |-> << >>,
                            times |-> EmptyMap ]
            ELSE \E order \in r.sortedLayouts :
                    shown' = [ report |-> "times", layouts |-> order,
                               times |-> r.layoutTimes ]
    /\ pc' = "ConfirmBooking"
    /\ UNCHANGED << exitReason, cfgVars, formVars, courses, windowVars,
                    timeFilterUsed, catalogVars, preScrapedTimes, coursesLeft,
                    pairsLeft, pickVars, bookingURL, lastAnswer, looped,
                    scrapeDatesCalls, preFetched, errVars, filterVars, nameVars,
                    sessionVars, toolVars >>

\* the booking question with a "no" that leaves the loop
ConfirmBookingStopOnNo ==
    /\ pc = "ConfirmBooking"
    /\ \E answer \in { "yes", "y", "no", "" } :
        /\ lastAnswer' = answer
        /\ bookingURL' = IF answer \in { "yes", "y" } THEN timeslotURL ELSE NoURL
        /\ IF answer \in { "yes", "y" }
           THEN pc' = "SelectCategory" /\ UNCHANGED exitReason
           ELSE Return("stopped")
    /\ looped' = TRUE
    /\ shown' = NoShow
    /\ selectedGame' = << >>
    /\ selectedCourse' = ""
    /\ timeslotURL' = NoURL
    /\ UNCHANGED << cfgVars, formVars, courses, windowVars,
                    timeFilterUsed, catalogVars, preScrapedTimes, coursesLeft,
                    pairsLeft, fetchVars, errVars, filterVars, nameVars,
                    sessionVars, toolVars >>

\* the booking question with a loop that starts over at the catalog building
ConfirmBookingRebuild ==
    /\ pc = "ConfirmBooking"
    /\ \E answer \in { "yes", "y", "no", "" } :
        /\ lastAnswer' = answer
        /\ bookingURL' = IF answer \in { "yes", "y" } THEN timeslotURL ELSE NoURL
    /\ looped' = TRUE
    /\ shown' = NoShow
    /\ selectedGame' = << >>
    /\ selectedCourse' = ""
    /\ timeslotURL' = NoURL
    /\ pc' = "ScrapeCourseData"
    /\ coursesLeft' = courses
    /\ UNCHANGED << exitReason, cfgVars, formVars, courses, windowVars,
                    timeFilterUsed, catalogVars, preScrapedTimes,
                    pairsLeft, fetchVars, errVars, filterVars, nameVars,
                    sessionVars, toolVars >>

\* lines 758-767: the booking question; the loop starts over
ConfirmBooking ==
    /\ pc = "ConfirmBooking"
    /\ \E answer \in { "yes", "y", "no", "" } :
        /\ lastAnswer' = answer
        /\ bookingURL' = IF answer \in { "yes", "y" } THEN timeslotURL ELSE NoURL
    /\ looped' = TRUE
    /\ shown' = NoShow
    /\ selectedGame' = << >>
    /\ selectedCourse' = ""
    /\ timeslotURL' = NoURL
    /\ pc' = "SelectCategory"
    /\ UNCHANGED << exitReason, cfgVars, formVars, courses, windowVars,
                    timeFilterUsed, catalogVars, preScrapedTimes, coursesLeft,
                    pairsLeft, fetchVars, errVars, filterVars, nameVars,
                    sessionVars, toolVars >>

Next ==
    \/ LoadCourses
    \/ CollectStartAnswers
    \/ SelectCourses
    \/ Validate
    \/ \E c \in Courses : ScrapeCourse(c)
    \/ FinishScrape
    \/ \E g \in DOMAIN gameToTimeslotURLs, c \in Courses : PreScrapePair(g, c)
    \/ FilterAvailable
    \/ PromptGameSelection
    \/ PromptPromoSelection
    \/ PromptCourseSelection
    \/ HandleTimesDisplayPreScraped
    \/ HandleTimesDisplay
    \/ ConfirmBooking

Spec == Init /\ [][Next]_vars


----------------------------------------------------------------------------
(* The filter functions on their own: inputs drawn from bounded sets *)

\* longest slot list given to the filter functions
MaxSlots == 3

SlotUniverse ==
    { Slot(8, 0, "AM", 2), Slot(1, 30, "PM", 4), Slot(9, 0, "AM", 1),
      Slot(12, 0, "PM", 3), Slot(2, 0, "PM", 4), Slot(11, 59, "AM", 4),
      Slot(2, 1, "PM", 3), Slot(13, 30, "PM", 4) }

SlotLists == UNION { [ 1..n -> SlotUniverse ] : n \in 0..MaxSlots }

SecondLayouts ==
    { << >>, << Slot(1, 0, "PM", 4) >>, << Slot(7, 0, "AM", 1) >>,
      << Slot(12, 0, "PM", 3) >> }

\* a page with the layout "18 Holes" and, unless `second` is empty, "9 Holes"
SlotMap(first, second) ==
    [ l \in { << "18", "Holes" >> } \cup
            (IF second = << >> THEN {} ELSE { << "9", "Holes" >> }) |->
        IF l = << "18", "Holes" >> THEN first ELSE second ]

FilterCentres == { << >>, << 13, 0 >> }
FilterSpots == { 0, 3 }

FlowIdle ==
    /\ pc = "off"
    /\ exitReason = ""
    /\ config \in { cfg \in Configs : \A c \in Courses : ~cfg[c].Blacklisted }
    /\ courseList = << >>
    /\ verboseMode = FALSE
    /\ choice = << >>
    /\ specifiedDate = ""
    /\ specifiedTime = << >>
    /\ specifiedSpots = 0
    /\ courses = {}
    /\ filterStartMinutes = 0
    /\ filterEndMinutes = 0
    /\ spotsFilterUsed = FALSE
    /\ timeFilterUsed = FALSE
    /\ standardGames = << >>
    /\ promoGames = << >>
    /\ gameToTimeslotURLs = EmptyMap
    /\ preScrapedTimes = EmptyMap
    /\ coursesLeft = {}
    /\ pairsLeft = {}
    /\ selectedGame = << >>
    /\ selectedCourse = ""
    /\ timeslotURL = NoURL
    /\ shown = NoShow
    /\ bookingURL = NoURL
    /\ lastAnswer = "none"
    /\ looped = FALSE
    /\ scrapeDatesCalls = {}
    /\ preFetched = {}
    /\ lastShowFetch = NoPair
    /\ failedUnits = {}
    /\ reported = {}
    /\ SessionIdle

flowVars == << pc, exitReason, cfgVars, formVars, courses, windowVars,
               timeFilterUsed, catalogVars, preScrapedTimes, coursesLeft,
               pairsLeft, pickVars, uiVars, fetchVars, errVars, sessionVars >>

InitFilter ==
    /\ FlowIdle
    /\ NamesIdle
    /\ ToolsIdle
    /\ \E first \in SlotLists, second \in SecondLayouts :
          fIn = SlotMap(first, second)
    /\ fCentre \in FilterCentres
    /\ fSpots \in FilterSpots
    /\ fOut = NoShow
    /\ fPre = EmptyMap
    /\ fPreLayouts = << >>
    /\ fPc = "ready"

\* handleTimeInput, then sortTimesByLayoutAndSpots (the call of line 998)
ApplySortTimesByLayoutAndSpots ==
    /\ fPc \in { "ready", "pre" }
    /\ LET w == handleTimeInput(fCentre, "future")
           r == sortTimesByLayoutAndSpots(fIn, w.start, w.end, fSpots)
       IN  \E order \in r.sortedLayouts :
              fOut' = [ report |-> "times", layouts |-> order, times |-> r.layoutTimes ]
    /\ fPc' = IF fPc = "ready" THEN "out" ELSE "both"
    /\ UNCHANGED << flowVars, nameVars, toolVars, fIn, fCentre, fSpots, fPre, fPreLayouts >>

\* handleTimeInput, then filterAndSortTimes (the call of line 829) and
\* sortLayoutsByEarliest on its result (the call of line 941)
ApplyFilterAndSortTimes ==
    /\ fPc \in { "ready", "out" }
    /\ LET w == handleTimeInput(fCentre, "future")
           r == filterAndSortTimes(fIn, w.start, w.end, fSpots)
       IN  /\ fPre' = r
           /\ \E order \in sortLayoutsByEarliest(r) : fPreLayouts' = order
    /\ fPc' = IF fPc = "ready" THEN "pre" ELSE "both"
    /\ UNCHANGED << flowVars, nameVars, toolVars, fIn, fCentre, fSpots, fOut >>

NextFilter ==
    \/ ApplySortTimesByLayoutAndSpots
    \/ ApplyFilterAndSortTimes

SpecFilter == InitFilter /\ [][NextFilter]_vars

----------------------------------------------------------------------------
(* normaliseGameName and categoriseGames applied to bounded labels *)

MaxWords == 3

\* the words raw labels are made of ("" is one more space)
WordUniverse ==
    { "", "9", "18", "19", "hole", "Holes", "HOLES", "(Walking)", "Midweek",
      "maylands", "TWILIGHT", "Special" }

\* the labels of the tests and of the scenarios, longer than MaxWords
ScenarioLabels ==
    { << "18", "holes", "carts", "can", "be", "added" >>,
      << "early", "bird", "special" >>,
      << "", "", "9", "", "", "hole", "", "Midweek", "", "" >>,
      << "18", "HOLES", "Twilight", "Special" >>,
      << "9", "Holes", "(carts)", "", "", "" >>,
      << "9", "holes", "18", "holes" >>,
      << "18", "Holes", "9", "hole" >>,
      << "9", "", "hole", "Special" >>,
      << "Twilight" >>, << "twilight" >> }

NameUniverse ==
    UNION { [ 1..n -> WordUniverse ] : n \in 0..MaxWords } \cup ScenarioLabels

\* the other raw label on the course's page
OtherLabels ==
    { << "9", "Holes" >>, << "18", "holes", "(Walking)" >>, << "Twilight", "Special" >> }

\* what scraping the course before left: Beta under 9 Holes
StartCat ==
    categoriseGames(GamesPage("Beta", { << "9", "Holes" >> }),
                    << << "9", "Holes" >> >>, "Beta", << >>, << >>, EmptyMap)

InitNames ==
    /\ FlowIdle
    /\ FilterIdle
    /\ ToolsIdle
    /\ nIn \in NameUniverse
    /\ nDetect = NoDetect
    /\ nOut = << >>
    /\ nAgain = << >>
    /\ nPage = EmptyMap
    /\ nOrder = << >>
    /\ nCat = NoCat
    /\ nPc = "ready"

\* normaliseGameName(nIn)
ApplyNormaliseGameName ==
    /\ nPc = "ready"
    /\ nDetect' = DetectHoles(PrepareName(nIn))
    /\ nOut' = normaliseGameName(nIn)
    /\ nPc' = "named"
    /\ UNCHANGED << flowVars, filterVars, toolVars, nIn, nAgain, nPage, nOrder, nCat >>

\* normaliseGameName of the name it returned
ApplyNormaliseAgain ==
    /\ nPc = "named"
    /\ nAgain' = normaliseGameName(nOut)
    /\ nPc' = "again"
    /\ UNCHANGED << flowVars, filterVars, toolVars, nIn, nDetect, nOut, nPage, nOrder, nCat >>

\* categoriseGames on the page of Alpha that holds nIn and one more label
ApplyCategoriseGames ==
    /\ nPc = "again"
    /\ \E other \in OtherLabels :
          LET page == GamesPage("Alpha", { nIn, other })
          IN  /\ nPage' = page
              /\ \E order \in PermsOf(DOMAIN page) :
                    /\ nOrder' = order
                    /\ nCat' = categoriseGames(page, order, "Alpha",
                                               StartCat.standardGames,
                                               StartCat.promoGames, StartCat.catalog)
    /\ nPc' = "done"
    /\ UNCHANGED << flowVars, filterVars, toolVars, nIn, nDetect, nOut, nAgain >>

NextNames ==
    \/ ApplyNormaliseGameName
    \/ ApplyNormaliseAgain
    \/ ApplyCategoriseGames

SpecNames == InitNames /\ [][NextNames]_vars


----------------------------------------------------------------------------
(* Properties of the run *)

LoopStates ==
    { "SelectCategory", "SelectPromo", "SelectCourse", "ShowSlots",
      "ConfirmBooking" }

\* a time window or a minimum spot count was specified
FilterSpecified == specifiedTime # << >> \/ specifiedSpots > 0

\* the centre of the specified window, in minutes of the day
CentreMinutes(t) == t[1] * 60 + t[2]

\* a slot qualifies under the criteria (centre, minimum spots)
Qualifies(ts, centre, minSpots) ==
    /\ ~parseTimeToMinutes(ts.Time).err
    /\ centre # << >> =>
          /\ Minutes(ts) >= CentreMinutes(centre) - 60
          /\ Minutes(ts) <= CentreMinutes(centre) + 60
    /\ minSpots > 0 => ts.AvailableSpots >= minSpots

\* the slots pre-scraped for a pair (none when the pair has no entry)
PreScrapedSlots(g, c) ==
    IF g \in DOMAIN preScrapedTimes /\ c \in DOMAIN preScrapedTimes[g]
    THEN UNION { Range(preScrapedTimes[g][c][l]) : l \in DOMAIN preScrapedTimes[g][c] }
    ELSE {}

\* C1: in every post-filter catalog each category present has at least one
\* course and each remaining (category, course) pair has at least one
\* qualifying slot; a category whose courses all have no qualifying slot is
\* absent from the catalog and from the lists offered to the user.
C1_CatalogPruned ==
    (pc \in LoopStates /\ (timeFilterUsed \/ spotsFilterUsed)) =>
        /\ \A g \in DOMAIN gameToTimeslotURLs :
              /\ DOMAIN gameToTimeslotURLs[g] # {}
              /\ \A c \in DOMAIN gameToTimeslotURLs[g] :
                    \E ts \in PreScrapedSlots(g, c) :
                        Qualifies(ts, specifiedTime, specifiedSpots)
        /\ \A g \in DOMAIN preScrapedTimes :
              (\A c \in Courses : PreScrapedSlots(g, c) = {}) =>
                  /\ g \notin DOMAIN gameToTimeslotURLs
                  /\ g \notin Range(standardGames) \cup Range(promoGames)
        /\ Range(standardGames) \cup Range(promoGames) = DOMAIN gameToTimeslotURLs

\* a category was removed by the filter and the menu is up
C1_Witness ==
    /\ pc = "SelectCategory"
    /\ timeFilterUsed
    /\ \E g \in DOMAIN preScrapedTimes : g \notin DOMAIN gameToTimeslotURLs
    /\ \E g \in DOMAIN gameToTimeslotURLs :
          \E c \in DOMAIN preScrapedTimes[g] : c \notin DOMAIN gameToTimeslotURLs[g]

\* C2: ScrapeTimes is called up front for every (category, course) pair of the
\* catalog if and only if a time window or a minimum spot count was specified;
\* otherwise no ScrapeTimes call is made before the user has selected a pair,
\* and the catalog reaches the selection loop as it was built.
C2_EagerIffFilterState ==
    /\ (pc = "PreScrape" /\ pairsLeft = {}) =>
          preFetched = PairsOf(gameToTimeslotURLs)
    /\ (pc \in LoopStates /\ FilterSpecified) =>
          /\ preFetched # {}
          /\ PairsOf(gameToTimeslotURLs) \subseteq preFetched
    /\ (pc \in LoopStates \cup { "PreScrape" } /\ ~FilterSpecified) =>
          /\ pc # "PreScrape"
          /\ preFetched = {}
    /\ preFetched # {} => FilterSpecified

C2_EagerIffFilterStep ==
    /\ lastShowFetch' # lastShowFetch =>
          /\ pc = "ShowSlots"
          /\ selectedCourse # ""
          /\ lastShowFetch' = << selectedGame, selectedCourse >>
    /\ (pc \in LoopStates /\ ~FilterSpecified) =>
          gameToTimeslotURLs' = gameToTimeslotURLs
    /\ (pc = "ScrapeCourseData" /\ pc' \in LoopStates) => ~FilterSpecified
    /\ (pc = "ScrapeCourseData" /\ pc' = "PreScrape") => FilterSpecified

C2_EagerIffFilter ==
    [] C2_EagerIffFilterState /\ [][C2_EagerIffFilterStep]_vars

\* eager mode with the window [0, 120] of the centre 01:00
C2_Witness ==
    /\ pc = "SelectCategory"
    /\ specifiedTime = << 1, 0 >>
    /\ specifiedSpots = 0
    /\ preFetched # {}


\* C3: cancelling at SelectCategory, at the Promos sub-selection or at
\* SelectCourse ends the whole session: the flow is Done, nothing is fetched
\* or asked afterwards, and the flow never steps back to SelectCategory.
C3_CancelStep ==
    /\ (pc \in { "SelectCategory", "SelectPromo", "SelectCourse" }
            /\ lastAnswer' = "cancel") =>
          /\ pc' = "Done"
          /\ UNCHANGED << fetchVars, preScrapedTimes, shown, bookingURL >>
    /\ pc \in { "SelectPromo", "SelectCourse" } => pc' # "SelectCategory"
    /\ pc = "Done" => UNCHANGED << pc, fetchVars, lastAnswer, shown, bookingURL >>

C3_CancelEndsSession ==
    [] (lastAnswer = "cancel" => pc = "Done") /\ [][C3_CancelStep]_vars

\* the user cancelled at SelectCourse, after picking a promo
C3_Witness ==
    /\ pc = "Done"
    /\ lastAnswer = "cancel"
    /\ selectedGame # << >>
    /\ ~isStandardGame(selectedGame)

FlowRank(p) ==
    CASE p = "SelectCategory" -> 1
      [] p = "SelectPromo" -> 2
      [] p = "SelectCourse" -> 3
      [] p = "ShowSlots" -> 4
      [] p = "ConfirmBooking" -> 5
      [] OTHER -> 6

\* C4: from ConfirmBooking the flow always goes back to SelectCategory,
\* whatever the answer, and this is the only transition of the flow that does
\* not go forward (to a later state or to Done).
C4_ConfirmStep ==
    /\ pc = "ConfirmBooking" => pc' = "SelectCategory"
    /\ (pc \in LoopStates /\ FlowRank(pc') <= FlowRank(pc)) =>
          (pc = "ConfirmBooking" /\ pc' = "SelectCategory")
    /\ pc \in LoopStates => pc' \in LoopStates \cup { "Done" }

C4_ConfirmLoopsBack == [][C4_ConfirmStep]_vars

\* the answer was "no" and the menu is up again
C4_Witness ==
    /\ pc = "SelectCategory"
    /\ looped
    /\ lastAnswer = "no"

\* C5: once the loop runs, the catalog and the filter criteria are the ones
\* built before the first prompt: no ScrapeDates call is made and neither the
\* catalog nor the criteria change.
C5_LoopStep ==
    (pc \in LoopStates \/ looped) =>
        UNCHANGED << catalogVars, windowVars, timeFilterUsed, formVars, courses,
                     scrapeDatesCalls, preScrapedTimes, preFetched >>

C5_LoopReusesCatalog ==
    [] (looped => pc \in LoopStates \cup { "Done" }) /\ [][C5_LoopStep]_vars

\* the user answered "yes", saw the URL, and the menu is up again
C5_Witness ==
    /\ pc = "SelectCategory"
    /\ looped
    /\ lastAnswer = "yes"
    /\ bookingURL # NoURL

\* C6: ShowSlots always proceeds to ConfirmBooking: a failed fetch or an empty
\* filtered list is reported as such, nothing is listed, and the booking
\* question is still asked; a displayed list is never empty.
C6_ShowStep ==
    pc = "ShowSlots" =>
        /\ pc' = "ConfirmBooking"
        /\ exitReason' = ""
        /\ shown'.report \in { "times", "failed to scrape times", "no times found",
                               "no times with filters" }
        /\ shown'.report # "times" => shown'.layouts = << >>
        /\ shown'.report = "times" =>
              /\ shown'.layouts # << >>
              /\ \A i \in DOMAIN shown'.layouts :
                    shown'.times[shown'.layouts[i]] # << >>

C6_ShowSlotsProceeds == [][C6_ShowStep]_vars

\* the fetch on selection failed and the booking question is up
C6_Witness ==
    /\ pc = "ConfirmBooking"
    /\ shown.report = "failed to scrape times"


\* the courses the user named, with --courses or in the form
NamedCourses ==
    IF Len(courseList) > 0
    THEN RestrictCourses(DOMAIN config, courseList).names
    ELSE RestrictCourses(DOMAIN config, choice).names

\* C7: a blacklisted course is excluded from catalog building unless the user
\* named it; a blacklisted course the user named is kept and scraped.
C7_BlacklistUnlessNamed ==
    (pc \in { "Validate", "ScrapeCourseData", "PreScrape" } \cup LoopStates) =>
        \A c \in DOMAIN config :
            config[c].Blacklisted => (c \in courses <=> c \in NamedCourses)

FailedCourses == { u[3] : u \in { f \in failedUnits : f[1] = "course" } }

FailedPairs == { << u[2], u[3] >> : u \in { f \in failedUnits : f[1] = "pair" } }

HasPreScraped(g, c) ==
    g \in DOMAIN preScrapedTimes /\ c \in DOMAIN preScrapedTimes[g]

\* catalog building has visited every course
ScrapeFinished ==
    \/ pc \in { "PreScrape" } \cup LoopStates
    \/ pc = "Done" /\ exitReason \in { "no games", "no games in range", "stopped" }

\* a failed unit has no entry, and the other units are all processed
C8_UnitsIsolated ==
    /\ \A c \in FailedCourses :
          \A g \in DOMAIN gameToTimeslotURLs : c \notin DOMAIN gameToTimeslotURLs[g]
    /\ \A p \in FailedPairs :
          /\ ~HasPreScraped(p[1], p[2])
          /\ pc \in LoopStates => p \notin PairsOf(gameToTimeslotURLs)
    /\ ScrapeFinished => scrapeDatesCalls = courses
    /\ (pc = "PreScrape" \/ (pc \in LoopStates /\ ~FilterSpecified)) =>
          \A c \in courses \ FailedCourses :
              \E g \in DOMAIN gameToTimeslotURLs : c \in DOMAIN gameToTimeslotURLs[g]
    /\ (pc = "PreScrape" /\ pairsLeft = {}) =>
          /\ preFetched = PairsOf(gameToTimeslotURLs)
          /\ \A p \in preFetched \ FailedPairs : HasPreScraped(p[1], p[2])

\* a step on one unit leaves what the earlier units contributed as it was
C8_UnitStep ==
    /\ pc = "ScrapeCourseData" =>
          \A g \in DOMAIN gameToTimeslotURLs :
              \A c \in DOMAIN gameToTimeslotURLs[g] :
                  /\ g \in DOMAIN gameToTimeslotURLs'
                  /\ c \in DOMAIN gameToTimeslotURLs'[g]
                  /\ gameToTimeslotURLs'[g][c] = gameToTimeslotURLs[g][c]
    /\ (pc = "PreScrape" /\ pc' = "PreScrape") =>
          \A p \in preFetched :
              /\ HasPreScraped(p[1], p[2]) =>
                    /\ p[1] \in DOMAIN preScrapedTimes'
                    /\ p[2] \in DOMAIN preScrapedTimes'[p[1]]
                    /\ preScrapedTimes'[p[1]][p[2]] = preScrapedTimes[p[1]][p[2]]
              /\ ~HasPreScraped(p[1], p[2]) =>
                    ~(p[1] \in DOMAIN preScrapedTimes'
                      /\ p[2] \in DOMAIN preScrapedTimes'[p[1]])

\* C8 as stated: every failed unit is reported, contributes no entry and
\* leaves the processing and the results of the other units alone.
C8_Original ==
    [] (failedUnits \subseteq reported /\ C8_UnitsIsolated) /\ [][C8_UnitStep]_vars

\* C8 (amended): a failed course is reported on the terminal; a failed
\* (category, course) pair of the eager pre-fetch is reported only in verbose
\* mode; either way the unit contributes no entry and the other units are
\* processed with the results they would have had.
C8_FailureIsLocal ==
    /\ [] (/\ \A u \in failedUnits :
                /\ u[1] = "course" => u \in reported
                /\ u[1] = "pair" => (u \in reported <=> verboseMode)
           /\ C8_UnitsIsolated)
    /\ [][C8_UnitStep]_vars

\* one course failed, one pair of the other course failed silently, and the
\* menu is up with what is left
C8_Witness ==
    /\ pc = "SelectCategory"
    /\ ~verboseMode
    /\ FailedCourses # {}
    /\ FailedPairs # {}
    /\ gameToTimeslotURLs # EmptyMap


\* the filtered maps computed so far
FilterResults ==
    (IF fPc \in { "pre", "both" } THEN { fPre } ELSE {}) \cup
    (IF fPc \in { "out", "both" } THEN { fOut.times } ELSE {})

MainLayout == << "18", "Holes" >>

\* C9: with a time centre c the window is [c-60, c+60], inclusive at both
\* ends: every slot of a filtered result lies inside it, and a slot exactly at
\* c-60 or c+60 (with enough spots) is kept.
C9_WindowInclusive ==
    (fCentre # << >> /\ fPc # "ready") =>
        LET lo == CentreMinutes(fCentre) - 60
            hi == CentreMinutes(fCentre) + 60
            w == handleTimeInput(fCentre, "future")
        IN  /\ ~w.err /\ w.start = lo /\ w.end = hi
            /\ \A R \in FilterResults :
                  /\ \A l \in DOMAIN R : \A i \in DOMAIN R[l] :
                        Minutes(R[l][i]) >= lo /\ Minutes(R[l][i]) <= hi
                  /\ \A l \in DOMAIN fIn : \A i \in DOMAIN fIn[l] :
                        LET ts == fIn[l][i]
                        IN  (/\ ~parseTimeToMinutes(ts.Time).err
                             /\ Minutes(ts) \in { lo, hi }
                             /\ (fSpots > 0 => ts.AvailableSpots >= fSpots))
                            => (l \in DOMAIN R /\ ts \in Range(R[l]))

\* both ends of the window are in the output and 2:01 PM was dropped
C9_Witness ==
    /\ fPc = "both"
    /\ fCentre = << 13, 0 >>
    /\ Slot(2, 1, "PM", 3) \in Range(fIn[MainLayout])
    /\ MainLayout \in DOMAIN fOut.times
    /\ Slot(12, 0, "PM", 3) \in Range(fOut.times[MainLayout])
    /\ Slot(2, 0, "PM", 4) \in Range(fOut.times[MainLayout])
    /\ Slot(2, 1, "PM", 3) \notin Range(fOut.times[MainLayout])
    /\ fPre = fOut.times

CountOf(seq, v) == Cardinality({ i \in DOMAIN seq : seq[i] = v })

CountAt(R, l, v) == IF l \in DOMAIN R THEN CountOf(R[l], v) ELSE 0

ScenarioIn == << Slot(8, 0, "AM", 2), Slot(1, 30, "PM", 4), Slot(9, 0, "AM", 1) >>

\* C10: the filtered list of a layout holds exactly the input slots whose
\* label parses, that lie in the window when one is active and that have the
\* minimum of spots when one is active; 8:00 AM/2, 1:30 PM/4, 9:00 AM/1 with
\* the window 12:00-14:00 and minimum 3 give exactly 1:30 PM/4.
C10_ExactFilter ==
    /\ \A R \in FilterResults :
          /\ DOMAIN R \subseteq DOMAIN fIn
          /\ \A l \in DOMAIN R : R[l] # << >>
          /\ \A l \in DOMAIN fIn : \A v \in Range(fIn[l]) \cup SlotUniverse :
                CountAt(R, l, v) =
                    IF Qualifies(v, fCentre, fSpots) THEN CountOf(fIn[l], v) ELSE 0
    /\ (/\ fPc \in { "out", "both" }
        /\ fIn = SlotMap(ScenarioIn, << >>)
        /\ fCentre = << 13, 0 >>
        /\ fSpots = 3)
       => /\ fOut.times = SlotMap(<< Slot(1, 30, "PM", 4) >>, << >>)
          /\ fOut.layouts = << MainLayout >>

\* the scenario, filtered by both functions
C10_Witness ==
    /\ fPc = "both"
    /\ fIn = SlotMap(ScenarioIn, << >>)
    /\ fCentre = << 13, 0 >>
    /\ fSpots = 3
    /\ fOut.times[MainLayout] = << Slot(1, 30, "PM", 4) >>


Ascending(seq) ==
    \A i \in 1..(Len(seq) - 1) : Minutes(seq[i]) <= Minutes(seq[i + 1])

\* C11: in every filtered result the slots of each layout are in ascending
\* order of their minutes of the day.
C11_SlotsAscending ==
    \A R \in FilterResults : \A l \in DOMAIN R : Ascending(R[l])

\* an input out of order, of which at least two slots are kept, comes out sorted
C11_Witness ==
    /\ fPc = "both"
    /\ ~Ascending(fIn[MainLayout])
    /\ MainLayout \in DOMAIN fPre
    /\ Len(fPre[MainLayout]) >= 2
    /\ fPre[MainLayout] # SelectSeq(fIn[MainLayout],
                                    LAMBDA ts : Qualifies(ts, fCentre, fSpots))
    /\ fOut.times = fPre


\* layouts is a listing of the layouts of times, none of them empty, in
\* ascending order of each layout's earliest slot
ListedByEarliest(layouts, times) ==
    /\ Range(layouts) = DOMAIN times
    /\ Len(layouts) = Cardinality(DOMAIN times)
    /\ \A l \in DOMAIN times : times[l] # << >>
    /\ \A i \in 1..(Len(layouts) - 1) :
          EarliestOf(times[layouts[i]]) <= EarliestOf(times[layouts[i + 1]])

\* C12: the layouts shown are listed in ascending order of each layout's own
\* earliest remaining slot, and a layout with no remaining slot is not listed.
C12_LayoutsByEarliest ==
    /\ fPc \in { "pre", "both" } =>
          /\ ListedByEarliest(fPreLayouts, fPre)
          /\ \A l \in DOMAIN fIn :
                l \in Range(fPreLayouts) <=>
                    \E i \in DOMAIN fIn[l] : Qualifies(fIn[l][i], fCentre, fSpots)
    /\ fPc \in { "out", "both" } =>
          /\ ListedByEarliest(fOut.layouts, fOut.times)
          /\ \A l \in DOMAIN fIn :
                l \in Range(fOut.layouts) <=>
                    \E i \in DOMAIN fIn[l] : Qualifies(fIn[l][i], fCentre, fSpots)

\* the second layout of the page starts earlier than the first and is listed
\* first by both paths
C12_Witness ==
    /\ fPc = "both"
    /\ fOut.layouts = << << "9", "Holes" >>, MainLayout >>
    /\ fPreLayouts = fOut.layouts
    /\ Len(fOut.times[MainLayout]) >= 2

\* a page of which one layout keeps no slot: only the other is listed
C12_WitnessDropped ==
    /\ fPc = "both"
    /\ DOMAIN fIn = { MainLayout, << "9", "Holes" >> }
    /\ fOut.layouts = << MainLayout >>

\* no two layouts listed start on the same minute
NoTie(layouts, times) ==
    \A i, j \in DOMAIN layouts :
        i # j => EarliestOf(times[layouts[i]]) # EarliestOf(times[layouts[j]])

\* C13 as stated: for the same fetched slots and the same criteria the eager
\* path (filterAndSortTimes, then sortLayoutsByEarliest) and the lazy path
\* (sortTimesByLayoutAndSpots) give the same layouts with the same slots in
\* the same order.
C13_Original ==
    fPc = "both" => (fPre = fOut.times /\ fPreLayouts = fOut.layouts)

\* C13 (amended): both paths give the same layouts with the same slots in the
\* same order within each layout, and list the layouts in the same order
\* except for layouts whose earliest slots fall on the same minute, which
\* either path may list in either order.
C13_SamePaths ==
    fPc = "both" =>
        /\ fPre = fOut.times
        /\ Range(fPreLayouts) = Range(fOut.layouts)
        /\ Len(fPreLayouts) = Len(fOut.layouts)
        /\ NoTie(fOut.layouts, fOut.times) => fPreLayouts = fOut.layouts
        /\ \A i \in DOMAIN fPreLayouts :
              EarliestOf(fPre[fPreLayouts[i]]) = EarliestOf(fOut.times[fOut.layouts[i]])

\* two layouts, out-of-order input, a filter that drops slots: both paths agree
C13_Witness ==
    /\ fPc = "both"
    /\ fCentre # << >> /\ fSpots > 0
    /\ Len(fOut.layouts) = 2
    /\ NoTie(fOut.layouts, fOut.times)
    /\ fPreLayouts = fOut.layouts
    /\ ~Ascending(fIn[MainLayout])
    /\ Len(fPre[MainLayout]) >= 2
    /\ Len(fPre[MainLayout]) < Len(fIn[MainLayout])

\* two layouts that start on the same minute, listed differently by the paths
C13_WitnessTie ==
    /\ fPc = "both"
    /\ fPre = fOut.times
    /\ fPreLayouts # fOut.layouts

\* C14: normalising the name normaliseGameName returned gives that name again.
C14_Idempotent ==
    nPc \in { "again", "done" } => nAgain = nOut

\* a noisy label and the name it was given normalise to the same category
C14_Witness ==
    /\ nPc = "again"
    /\ nIn = << "9", "Holes", "(Walking)" >>
    /\ nOut = << "9", "Holes" >>
    /\ nAgain = nOut

\* a promo with spaces and a hole reference is a fixed point too
C14_WitnessPromo ==
    /\ nPc = "again"
    /\ nIn = << "18", "HOLES", "Twilight", "Special" >>
    /\ nOut = << "18", "Holes", "Twilight", "Special" >>
    /\ nAgain = nOut

\* the words left of a label once the parenthesised text, the hole tokens
\* and the filler words are taken out
ResidualWords(label) ==
    SelectSeq(DropHolePairs(Fields(CanonHoles(PrepareName(label))), 1, FALSE),
              LAMBDA w : w \notin allowedStandardModifiers)

\* the label was found to hold a 9-hole and an 18-hole token and nothing else
BothTokensOnly ==
    /\ nPc \in { "named", "again", "done" }
    /\ nDetect.hasNine /\ nDetect.hasEighteen
    /\ ResidualWords(nIn) = << >>

Named == nPc \in { "named", "again", "done" }

\* C16: a label is taken to hold the 9-hole (18-hole) token exactly when 9
\* (18) followed by the word hole or holes occurs as whole words, as the
\* pattern that canonicalises the token matches it.
C16_DetectionByWordBoundary ==
    Named =>
        /\ nDetect.hasNine <=> MatchesHoleRegex(PrepareName(nIn), "9")
        /\ nDetect.hasEighteen <=> MatchesHoleRegex(PrepareName(nIn), "18")

\* the label is a 9-hole token and filler words only
NineHolesAndFiller(label) ==
    /\ MatchesHoleRegex(PrepareName(label), "9")
    /\ ~MatchesHoleRegex(PrepareName(label), "18")
    /\ ResidualWords(label) = << >>

\* C17: a label made of a 9-hole token and allow-listed filler only is the
\* Standard category 9 Holes, whatever its letter case and its spaces.
C17_NineHolesWithFiller ==
    (Named /\ NineHolesAndFiller(nIn)) =>
        (nOut = << "9", "Holes" >> /\ isStandardGame(nOut))

\* C18: a label that is "twilight" once trimmed and lower-cased is the
\* Standard category Twilight, and is listed with the standard games.
C18_TwilightIsStandard ==
    (Named /\ ToLower(TrimSpace(nIn)) = << "twilight" >>) =>
        /\ nOut = << "Twilight" >>
        /\ isStandardGame(nOut)
        /\ nPc = "done" =>
              /\ nOut \in Range(nCat.standardGames)
              /\ nOut \notin Range(nCat.promoGames)
              /\ nOut \in DOMAIN nCat.catalog

\* " TWILIGHT " was categorised
C18_Witness ==
    /\ nPc = "done"
    /\ nIn = << "", "TWILIGHT", "" >>
    /\ nOut = << "Twilight" >>
    /\ nOut \in Range(nCat.standardGames)

\* C19: a label with a hole-count token and a word outside the allow-list is
\* the Promo named by the title-cased label with the token in its plural
\* form, never a Standard category.
C19_TokenPlusWordIsPromo ==
    (/\ Named
     /\ MatchesHoleRegex(PrepareName(nIn), "9") \/ MatchesHoleRegex(PrepareName(nIn), "18")
     /\ ResidualWords(nIn) # << >>) =>
        /\ nOut = Title(CanonHoles(PrepareName(nIn)))
        /\ ~isStandardGame(nOut)

\* the position of the last label of the order that normalises to g (0: none)
LastOf(order, g) ==
    LET at == { i \in DOMAIN order : normaliseGameName(order[i]) = g }
    IN  IF at = {} THEN 0 ELSE CHOOSE i \in at : \A j \in at : j <= i

\* C20: the catalog holds one entry for a (category, course) pair: of two raw
\* labels of a course that normalise to the same category the one visited
\* later leaves its URL; the course is listed under every category its labels
\* normalise to, and the entries of other courses stay.
C20_LaterOverwrites ==
    nPc = "done" =>
        LET cat == nCat.catalog
        IN  /\ DOMAIN cat = DOMAIN StartCat.catalog \cup
                            { normaliseGameName(l) : l \in DOMAIN nPage }
            /\ \A g \in DOMAIN cat :
                  /\ "Alpha" \in DOMAIN cat[g] <=> LastOf(nOrder, g) > 0
                  /\ LastOf(nOrder, g) > 0 =>
                        cat[g]["Alpha"] = nPage[nOrder[LastOf(nOrder, g)]]
                  /\ \A c \in DOMAIN cat[g] \ { "Alpha" } :
                        /\ g \in DOMAIN StartCat.catalog
                        /\ c \in DOMAIN StartCat.catalog[g]
                        /\ cat[g][c] = StartCat.catalog[g][c]
            /\ \A g \in DOMAIN StartCat.catalog : \A c \in DOMAIN StartCat.catalog[g] :
                  c \in DOMAIN cat[g]

\* two labels of Alpha are both 9 Holes and have different URLs: the catalog
\* holds the URL of the second one visited, next to the entry of Beta
C20_Witness ==
    /\ nPc = "done"
    /\ nIn = << "9", "Holes", "(Walking)" >>
    /\ nOrder = << << "9", "Holes" >>, nIn >>
    /\ nPage[nOrder[1]] # nPage[nOrder[2]]
    /\ nCat.catalog[<< "9", "Holes" >>]["Alpha"] = nPage[nIn]
    /\ "Beta" \in DOMAIN nCat.catalog[<< "9", "Holes" >>]

\* the same course under two categories
C20_WitnessTwoCategories ==
    /\ nPc = "done"
    /\ \E g, h \in DOMAIN nCat.catalog :
          g # h /\ "Alpha" \in DOMAIN nCat.catalog[g] /\ "Alpha" \in DOMAIN nCat.catalog[h]

----------------------------------------------------------------------------
(* Errors before scraping, the progress display, leaving the start form *)

\* the date, time and spots of the run pass handleDateInput, handleTimeInput
\* and handleSpotsInput
InputsValid ==
    /\ ~handleDateInput(specifiedDate).err
    /\ ~handleTimeInput(specifiedTime, specifiedDate).err
    /\ ~handleSpotsInput(specifiedSpots).err

\* ScrapeDates or ScrapeTimes has been called
AnyScraping ==
    scrapeDatesCalls # {} \/ preFetched # {} \/ lastShowFetch # NoPair

\* a selection prompt is or has been on screen
AnyPrompt == pc \in LoopStates \/ lastAnswer # "none" \/ shown # NoShow

VisitedCourses == IF pc = "ScrapeCourseData" THEN courses \ coursesLeft
                  ELSE IF progressProgram = "waited" THEN courses ELSE {}

\* the counts 1..n in order
RECURSIVE CountsTo(_)
CountsTo(n) == IF n = 0 THEN << >> ELSE Append(CountsTo(n - 1), n)

\* the counts never decrease and never exceed the number of courses
CountsBounded ==
    /\ \A i \in 1..Len(pbMsgs) : pbMsgs[i] <= Cardinality(courses)
    /\ \A i \in 1..(Len(pbMsgs) - 1) : pbMsgs[i] <= pbMsgs[i + 1]

\* C22 as stated: during catalog building a count has been sent for every
\* course visited so far, and the counts never decrease and never exceed the
\* number of courses.
C22_Original ==
    /\ pc = "ScrapeCourseData" => Len(pbMsgs) = Cardinality(VisitedCourses)
    /\ CountsBounded

\* C22: during catalog building a count is sent after each course that was
\* fetched successfully (none after a course whose fetch failed), the counts
\* being 1, 2, ... up to the number of successes; after the loop the total
\* number of courses is sent once; the counts never decrease and never
\* exceed the number of courses.
C22_CountsSuccesses ==
    LET ok == Cardinality(VisitedCourses \ FailedCourses)
    IN  /\ pc = "ScrapeCourseData" => pbMsgs = CountsTo(ok)
        /\ progressProgram = "waited" =>
              pbMsgs = Append(CountsTo(ok), Cardinality(courses))
        /\ progressProgram \in { "nil" } => pbMsgs = << >>
        /\ CountsBounded

\* two courses, one fetch failed: one count in the loop, then the total
C22_Witness ==
    /\ progressProgram = "waited"
    /\ Cardinality(courses) = 2
    /\ Cardinality(FailedCourses) = 1
    /\ pbMsgs = << 1, 2 >>

\* both fetched: the total is sent twice
C22_WitnessAll ==
    /\ progressProgram = "waited"
    /\ pbMsgs = << 1, 2, 2 >>

\* C27: Esc or Ctrl+C in the start form ends the program: no ScrapeDates or
\* ScrapeTimes call and no selection prompt follows.
C27_EscQuits ==
    formExit = "esc" => ~AnyScraping /\ ~AnyPrompt

\* C28: whenever runScraper has returned after starting the progress
\* display, the display has been sent its final count and waited for.
C28_DisplayFinished ==
    (pc = "Done" /\ progressProgram # "nil") => progressProgram = "waited"

----------------------------------------------------------------------------
(* The start form under repeated Enter *)

\* the form as newStartFormModel builds it from the flags
InitStartForm ==
    /\ FlowIdle
    /\ FilterIdle
    /\ NamesIdle
    /\ \E list \in CourseListInputs, date \in DateInputs, time \in TimeInputs,
          spots \in SpotsInputs :
          startForm = newStartFormModel(list, date, time, spots)
    /\ lastKey = "none"
    /\ ConfigIdle

\* the user presses Enter while the form is on screen
PressEnter ==
    /\ ~startForm.done
    /\ startForm' = startFormUpdate(startForm, "enter")
    /\ lastKey' = "enter"
    /\ UNCHANGED << flowVars, filterVars, nameVars, configVars >>

NextStartForm == PressEnter

\* the user keeps pressing Enter for as long as a press changes anything
SpecStartForm ==
    InitStartForm /\ [][NextStartForm]_vars /\ WF_vars(PressEnter)

\* C26: whichever fields are locked by flags, all four included, pressing
\* Enter repeatedly eventually completes the start form (done is set).
C26_EnterCompletes == <>(startForm.done)

----------------------------------------------------------------------------
(* The category menu *)

\* the (category, course) pairs that qualify: with a filter, the pairs with a
\* pre-scraped slot left by the filter; without one, every pair of the catalog
QualifyingPairs ==
    IF timeFilterUsed \/ spotsFilterUsed
    THEN { p \in (DOMAIN preScrapedTimes) \X Courses :
             \E ts \in PreScrapedSlots(p[1], p[2]) :
                 Qualifies(ts, specifiedTime, specifiedSpots) }
    ELSE PairsOf(gameToTimeslotURLs)

QualifyingStandard == { p[1] : p \in { q \in QualifyingPairs : isStandardGame(q[1]) } }

QualifyingPromo == { p[1] : p \in { q \in QualifyingPairs : ~isStandardGame(q[1]) } }

NoRepeats(seq) == \A i, j \in 1..Len(seq) : i # j => seq[i] # seq[j]

C23_MenuState ==
    pc \in { "SelectCategory", "SelectPromo" } =>
        LET menu == GameOptions(standardGames, promoGames)
            sub == uniqueNames(promoGames)
        IN  /\ NoRepeats(menu)
            /\ Range(menu) \ { Promos } = QualifyingStandard
            /\ Promos \in Range(menu) <=> QualifyingPromo # {}
            /\ NoRepeats(sub)
            /\ Range(sub) = QualifyingPromo

C23_MenuStep ==
    /\ (pc = "SelectCategory" /\ pc' = "SelectCourse") =>
          selectedGame' \in QualifyingStandard
    /\ (pc # "SelectPromo" /\ pc' = "SelectPromo") =>
          pc = "SelectCategory" /\ QualifyingPromo # {}
    /\ (pc = "SelectPromo" /\ pc' = "SelectCourse") =>
          selectedGame' \in QualifyingPromo

\* C23: the menu at SelectCategory lists each Standard category that has a
\* qualifying course exactly once and nothing else but "Promos", which is in
\* the menu if and only if some Promo category qualifies; choosing "Promos"
\* leads to a menu of the qualifying Promo categories only, each once, and a
\* pick there is one of them.
C23_CategoryMenu == [] C23_MenuState /\ [][C23_MenuStep]_vars

\* the menu is up with "Promos" in it and a Standard category that both
\* courses offer, listed twice in standardGames
C23_Witness ==
    /\ pc = "SelectCategory"
    /\ Promos \in Range(GameOptions(standardGames, promoGames))
    /\ \E i, j \in 1..Len(standardGames) :
          i # j /\ standardGames[i] = standardGames[j]

\* the Promos menu is up after a filter removed a Standard category
C23_WitnessPromoMenu ==
    /\ pc = "SelectPromo"
    /\ timeFilterUsed
    /\ \E g \in DOMAIN preScrapedTimes :
          isStandardGame(g) /\ g \notin QualifyingStandard

----------------------------------------------------------------------------
(* The quick18 column filter *)

\* the slots a page at url can hold in the column labelled g
ColumnSlots(url, g) ==
    UNION { Range(p.times[g]) :
            p \in { q \in TimePages(url) : ~q.err /\ g \in DOMAIN q.times } }

\* the slots of a layout -> slots map
SlotsOf(times) == UNION { Range(times[l]) : l \in DOMAIN times }

\* C24: for a quick18 course the slots resolved for a (category, course) pair,
\* pre-scraped in eager mode or shown on selection in either mode, are filed
\* under the category's own label only and are slots of the page's column with
\* that label; the slots of the page's other columns never appear for the pair.
C24_OnlyOwnColumn ==
    /\ \A g \in DOMAIN preScrapedTimes : \A c \in DOMAIN preScrapedTimes[g] :
          config[c].WebsiteType = "quick18" =>
              /\ DOMAIN preScrapedTimes[g][c] \subseteq { g }
              /\ PreScrapedSlots(g, c) \subseteq
                     ColumnSlots(AccessURL(c, g), g)
    /\ (pc = "ConfirmBooking" /\ config[selectedCourse].WebsiteType = "quick18") =>
          /\ DOMAIN shown.times \subseteq { selectedGame }
          /\ SlotsOf(shown.times) \subseteq ColumnSlots(timeslotURL, selectedGame)

\* lazy mode: the 9 Holes column of Beta is shown and the page has an 18 Holes
\* column with other slots
C24_Witness ==
    /\ pc = "ConfirmBooking"
    /\ ~timeFilterUsed /\ ~spotsFilterUsed
    /\ selectedCourse = "Beta"
    /\ selectedGame = << "9", "Holes" >>
    /\ shown.report = "times"
    /\ SlotsOf(shown.times) # {}
    /\ ColumnSlots(timeslotURL, << "18", "Holes" >>) \ SlotsOf(shown.times) # {}

\* eager mode: a column of Beta was pre-scraped and is shown
C24_WitnessEager ==
    /\ pc = "ConfirmBooking"
    /\ timeFilterUsed \/ spotsFilterUsed
    /\ selectedCourse = "Beta"
    /\ shown.report = "times"
    /\ PreScrapedSlots(selectedGame, "Beta") # {}

----------------------------------------------------------------------------
(* The config file: overwriteCoursesToFile, loadExistingCourses and the
   blacklist editor.  A text is the sequence of its characters; a word that
   holds no comma and no space ("miclub", "true") stands as one element. *)

MaxCourses == 2

\* strings.TrimSpace on a text
RECURSIVE TrimLeftText(_)
TrimLeftText(s) ==
    IF s # << >> /\ Head(s) = " " THEN TrimLeftText(Tail(s)) ELSE s

RECURSIVE TrimRightText(_)
TrimRightText(s) ==
    IF s # << >> /\ s[Len(s)] = " "
    THEN TrimRightText(SubSeq(s, 1, Len(s) - 1)) ELSE s

TrimSpaceText(s) == TrimRightText(TrimLeftText(s))

\* strings.SplitN(s, ",", n)
RECURSIVE SplitN(_, _)
SplitN(s, n) ==
    LET commas == { i \in 1..Len(s) : s[i] = "," }
    IN  IF n <= 1 \/ commas = {} THEN << s >>
        ELSE LET i == CHOOSE c \in commas : \A d \in commas : c <= d
             IN  << SubSeq(s, 1, i - 1) >> \o SplitN(SubSeq(s, i + 1, Len(s)), n - 1)

\* fmt's %t
BoolText(b) == IF b THEN << "true" >> ELSE << "false" >>

\* strings.EqualFold(bl, "true")
EqualFoldTrue(bl) == bl \in { << "true" >>, << "TRUE" >>, << "True" >> }

\* the line fmt.Sprintf("%s,%s,%s,%t\n", ...) writes for a course
FormatCourse(course) ==
    course.Name \o << "," >> \o course.URL \o << "," >> \o course.WebsiteType
        \o << "," >> \o BoolText(course.Blacklisted)

\* appendCoursesToFile: the lines are added after the file's content
appendCoursesToFile(file, list) ==
    file \o [ i \in 1..Len(list) |-> FormatCourse(list[i]) ]

\* overwriteCoursesToFile: the file is truncated (O_TRUNC) and holds one line
\* per course
overwriteCoursesToFile(file, list) ==
    [ i \in 1..Len(list) |-> FormatCourse(list[i]) ]

\* the scanner loop of loadExistingCourses over the lines left
RECURSIVE LoadLines(_, _)
LoadLines(lines, found) ==
    IF lines = << >> THEN found
    ELSE LET line == TrimSpaceText(Head(lines))
             parts == SplitN(line, 4)
         IN  IF line = << >> \/ Len(parts) < 3
             THEN LoadLines(Tail(lines), found)
             ELSE LET courseURL == TrimSpaceText(parts[2])
                      info == [ Name |-> TrimSpaceText(parts[1]),
                                URL |-> courseURL,
                                WebsiteType |-> TrimSpaceText(parts[3]),
                                Blacklisted |->
                                    IF Len(parts) = 4
                                    THEN EqualFoldTrue(TrimSpaceText(parts[4]))
                                    ELSE FALSE ]
                  IN  LoadLines(Tail(lines), MapPut(found, courseURL, info))

\* loadExistingCourses: URL -> CourseInfo
loadExistingCourses(file) == LoadLines(file, EmptyMap)

\* strings.ToLower on a text
LowerText(s) ==
    [ i \in 1..Len(s) |-> CASE s[i] = "A" -> "a" [] s[i] = "B" -> "b"
                            [] OTHER -> s[i] ]

\* byte order of the characters used in names
CharRank(ch) == CASE ch = " " -> 32 [] ch = "," -> 44 [] ch = "A" -> 65
                  [] ch = "B" -> 66 [] ch = "a" -> 97 [] ch = "b" -> 98
                  [] OTHER -> 127

\* a < b for Go strings
RECURSIVE TextLess(_, _)
TextLess(a, b) ==
    IF b = << >> THEN FALSE
    ELSE IF a = << >> THEN TRUE
    ELSE IF Head(a) = Head(b) THEN TextLess(Tail(a), Tail(b))
    ELSE CharRank(Head(a)) < CharRank(Head(b))

\* loadExistingCoursesSlice: the map's values (in map-iteration order) sorted
\* by lower-cased name: every order that ascends by it
loadExistingCoursesSlice(file) ==
    LET cMap == loadExistingCourses(file)
    IN  { out \in PermsOf({ cMap[u] : u \in DOMAIN cMap }) :
            \A i \in 1..(Len(out) - 1) :
                ~TextLess(LowerText(out[i + 1].Name), LowerText(out[i].Name)) }

\* initialBlacklistModel
initialBlacklistModel(list) == [ courses |-> list, cursor |-> 0 ]

\* blacklistModel.Update for a key that does not close the editor: space
\* toggles the course under the cursor, up and down move the list cursor
blacklistUpdate(m, key) ==
    CASE key = " " ->
            [ m EXCEPT !.courses[m.cursor + 1].Blacklisted = ~@ ]
      [] key = "up" ->
            [ m EXCEPT !.cursor = IF @ > 0 THEN @ - 1 ELSE @ ]
      [] key = "down" ->
            [ m EXCEPT !.cursor = IF @ < Len(m.courses) - 1 THEN @ + 1 ELSE @ ]
      [] OTHER -> m

\* the course fields tried
NameTexts == { << "a" >>, << "B" >>, << "a", ",", "b" >> }
URLTexts == { << "u" >>, << "v" >> }
TypeTexts == { << "miclub" >>, << "Quick18" >> }

CourseInfos ==
    [ Name : NameTexts, URL : URLTexts, WebsiteType : TypeTexts,
      Blacklisted : BOOLEAN ]

CourseLists == UNION { [ 1..n -> CourseInfos ] : n \in 0..MaxCourses }

\* what the file can hold before it is overwritten
PreviousFiles ==
    { << >>,
      << << "J", "U", "N", "K" >> >>,
      << << "B", ",", "w", ",", "miclub", ",", "TRUE" >> >> }

\* the configs the blacklist command is started on: two courses, the second
\* stored without the optional blacklisted field; one course; none
StoredFiles ==
    { << << "B", ",", "u", ",", "miclub", ",", "false" >>,
         << "a", ",", "v", ",", "Quick18" >> >>,
      << << "a", ",", "u", ",", "miclub", ",", "true" >>,
         << "B", ",", "v", ",", "Quick18", ",", "false" >> >>,
      << << "a", ",", "u", ",", "miclub", ",", "false" >> >>,
      << >> }

InitConfig ==
    /\ FlowIdle
    /\ FilterIdle
    /\ NamesIdle
    /\ StartFormIdle
    /\ \/ /\ cPc = "ready"
          /\ configFile \in PreviousFiles
          /\ toWrite \in CourseLists
       \/ /\ cPc = "command"
          /\ configFile \in StoredFiles
          /\ toWrite = << >>
    /\ fileBefore = configFile
    /\ loaded = EmptyMap
    /\ blacklist = NoEditor
    /\ editorKey = "none"

\* overwriteCoursesToFile(toWrite)
ApplyOverwriteCoursesToFile ==
    /\ cPc = "ready"
    /\ configFile' = overwriteCoursesToFile(configFile, toWrite)
    /\ cPc' = "written"
    /\ UNCHANGED << flowVars, filterVars, nameVars, startFormVars, fileBefore,
                    toWrite, loaded, blacklist, editorKey >>

\* loadExistingCourses()
ApplyLoadExistingCourses ==
    /\ cPc = "written"
    /\ loaded' = loadExistingCourses(configFile)
    /\ cPc' = "loaded"
    /\ UNCHANGED << flowVars, filterVars, nameVars, startFormVars, configFile,
                    fileBefore, toWrite, blacklist, editorKey >>

\* configBlacklistCmd up to the start of the editor (554-560)
StartBlacklist ==
    /\ cPc = "command"
    /\ \E existing \in loadExistingCoursesSlice(configFile) :
          IF Len(existing) = 0
          THEN /\ cPc' = "command done"
               /\ UNCHANGED blacklist
          ELSE /\ cPc' = "editing"
               /\ blacklist' = initialBlacklistModel(existing)
    /\ UNCHANGED << flowVars, filterVars, nameVars, startFormVars, configFile,
                    fileBefore, toWrite, loaded, editorKey >>

\* a key that keeps the editor open
EditorKey(key) ==
    /\ cPc = "editing"
    /\ blacklist' = blacklistUpdate(blacklist, key)
    /\ UNCHANGED << flowVars, filterVars, nameVars, startFormVars, configFile,
                    fileBefore, toWrite, loaded, editorKey, cPc >>

\* Enter, Esc or Ctrl+C: Update returns tea.Quit and configBlacklistCmd goes
\* on (562-579) to write the editor's courses
CloseEditor(key) ==
    /\ cPc = "editing"
    /\ editorKey' = key
    /\ configFile' = overwriteCoursesToFile(configFile, blacklist.courses)
    /\ cPc' = "command done"
    /\ UNCHANGED << flowVars, filterVars, nameVars, startFormVars, fileBefore,
                    toWrite, loaded, blacklist >>

NextConfig ==
    \/ ApplyOverwriteCoursesToFile
    \/ ApplyLoadExistingCourses
    \/ StartBlacklist
    \/ \E key \in { " ", "up", "down" } : EditorKey(key)
    \/ \E key \in { "enter", "esc", "ctrl+c" } : CloseEditor(key)

SpecConfig == InitConfig /\ [][NextConfig]_vars

\* the courses of a list, as a set
CoursesOf(list) == { list[i] : i \in 1..Len(list) }

\* C25: for every list of courses, overwriteCoursesToFile followed by
\* loadExistingCourses yields exactly the written courses, each under its URL
\* with its name, website type and blacklisted flag, and nothing else: no
\* entry comes from what the file held before.
C25_RoundTrip ==
    cPc = "loaded" =>
        /\ { loaded[u] : u \in DOMAIN loaded } = CoursesOf(toWrite)
        /\ \A u \in DOMAIN loaded : loaded[u].URL = u

\* a text that survives the record format: no comma, no space at either end
PlainText(s) == "," \notin Range(s) /\ TrimSpaceText(s) = s

\* the round trip does hold for lists whose names and URLs are plain and
\* whose URLs are distinct
RoundTripOfPlainLists ==
    (/\ cPc = "loaded"
     /\ \A c \in CoursesOf(toWrite) : PlainText(c.Name) /\ PlainText(c.URL)
     /\ \A c, d \in CoursesOf(toWrite) : c.URL = d.URL => c = d) =>
        /\ { loaded[u] : u \in DOMAIN loaded } = CoursesOf(toWrite)
        /\ \A u \in DOMAIN loaded : loaded[u].URL = u

\* C30: when the blacklist editor was left with Esc or Ctrl+C the stored
\* config is what it was before the command, every course with the
\* blacklisted flag it had: toggles reach the file only on Enter.
C30_EscKeepsConfig ==
    (cPc = "command done" /\ editorKey \in { "esc", "ctrl+c" }) =>
        loadExistingCourses(configFile) = loadExistingCourses(fileBefore)

----------------------------------------------------------------------------
(* Every category offered has a course *)

\* the categories the two menus of promptGameSelection offer
OfferedCategories ==
    (Range(GameOptions(standardGames, promoGames)) \ { Promos })
        \cup Range(uniqueNames(promoGames))

\* the catalog has at least one course for category g
HasCourse(g) ==
    g \in DOMAIN gameToTimeslotURLs /\ DOMAIN gameToTimeslotURLs[g] # {}

C29_OfferedState ==
    /\ pc \in { "SelectCategory", "SelectPromo" } =>
          \A g \in OfferedCategories : HasCourse(g)
    /\ pc = "SelectCourse" => HasCourse(selectedGame)

C29_OfferedStep ==
    /\ (pc \in { "SelectCategory", "SelectPromo" } /\ lastAnswer' = "pick") =>
          pc' \in { "SelectPromo", "SelectCourse" }
    /\ (pc = "SelectCourse" /\ pc' = "Done") =>
          lastAnswer' \in { "cancel", "error" }

C29_WitnessLazy ==
    /\ pc = "SelectCourse"
    /\ ~timeFilterUsed /\ ~spotsFilterUsed
    /\ ~isStandardGame(selectedGame)
    /\ HasCourse(selectedGame)

====
